---- MODULE Spec2Model ----
(***************************************************************************)
(* Query-parameter driven list pipeline of the Django boilerplate:         *)
(* parameter parsing, search / exact filters, and manual pagination with   *)
(* next / previous link reconstruction.                                    *)
(*                                                                         *)
(* Text is modelled as a sequence of one-character strings, so that        *)
(* int(), str(), strip(), lower(), urlencode() and the query-string parse  *)
(* are computed character by character, as the code computes them.         *)
(***************************************************************************)
EXTENDS Integers, Sequences, FiniteSets, TLC

VARIABLES
    pc,            \* position of the request handler
    queryset,      \* the collection handed to the list pipeline
    query_params,  \* request.query_params (a QueryDict)
    search_fields, \* the endpoint's search_fields
    filter_fields, \* the endpoint's filter fields
    pagination_params, \* apply_manual_pagination's local of that name
    sort_fields,   \* the endpoint's allow-list of sort fields
    default_sort,  \* the endpoint's default sort key
    audit_log,     \* the audit_logs table
    call_args,     \* the arguments of the call under way (log_audit_event,
                   \* success_response / error_response, the exception handled)
    result,        \* the handler's return value
    user_table,    \* the users table
    media,         \* the files default_storage holds
    master_table   \* the table of a master-data model

vars == <<pc, queryset, query_params, search_fields, filter_fields,
          pagination_params, sort_fields, default_sort, audit_log, call_args,
          result, user_table, media, master_table>>

---------------------------------------------------------------------------
(* Bounds of the model                                                     *)

MaxRecords == 25

\* audit events recorded in one behaviour
MaxEvents == 2

---------------------------------------------------------------------------
(* Text helpers                                                            *)

\* Python's None, kept apart from every text (texts hold one-character strings)
None == <<"<None>">>

Digits == <<"0", "1", "2", "3", "4", "5", "6", "7", "8", "9">>

IsDigit(c) == \E i \in 1..10 : Digits[i] = c

DigitVal(c) == (CHOOSE i \in 1..10 : Digits[i] = c) - 1

IsSpace(c) == c = " "

Min(a, b) == IF a < b THEN a ELSE b

Max(a, b) == IF a > b THEN a ELSE b

\* str.strip(): drops leading and trailing whitespace
RECURSIVE LStrip(_)
LStrip(s) == IF s # <<>> /\ IsSpace(Head(s)) THEN LStrip(Tail(s)) ELSE s

RECURSIVE RStrip(_)
RStrip(s) ==
    IF s # <<>> /\ IsSpace(s[Len(s)]) THEN RStrip(SubSeq(s, 1, Len(s) - 1)) ELSE s

Strip(s) == RStrip(LStrip(s))

\* value of a run of decimal digits
RECURSIVE DecVal(_)
DecVal(s) ==
    IF s = <<>> THEN 0
    ELSE 10 * DecVal(SubSeq(s, 1, Len(s) - 1)) + DigitVal(s[Len(s)])

\* str(int) of a non-negative integer
RECURSIVE NatStr(_)
NatStr(n) ==
    IF n < 10 THEN <<Digits[n + 1]>> ELSE NatStr(n \div 10) \o <<Digits[(n % 10) + 1]>>

PyStr(n) == IF n < 0 THEN <<"-">> \o NatStr(0 - n) ELSE NatStr(n)

\* int(text): surrounding whitespace, one optional sign, digits with single
\* underscores between digits; anything else raises ValueError (ok = FALSE)
PyInt(s) ==
    LET t    == Strip(s)
        sgn  == IF t # <<>> /\ Head(t) = "-" THEN -1 ELSE 1
        body == IF t # <<>> /\ Head(t) \in {"-", "+"} THEN Tail(t) ELSE t
        digs == SelectSeq(body, IsDigit)
        good == /\ body # <<>>
                /\ \A i \in 1..Len(body) : IsDigit(body[i]) \/ body[i] = "_"
                /\ IsDigit(body[1]) /\ IsDigit(body[Len(body)])
                /\ \A i \in 1..(Len(body) - 1) : ~(body[i] = "_" /\ body[i + 1] = "_")
    IN  IF good THEN [ok |-> TRUE, val |-> sgn * DecVal(digs)]
        ELSE [ok |-> FALSE, val |-> 0]

---------------------------------------------------------------------------
(* QueryDict: an insertion-ordered mapping from key to the list of its     *)
(* values, as request.query_params / request.GET                           *)

PAGE == <<"p", "a", "g", "e">>

LIMIT == <<"l", "i", "m", "i", "t">>

SEARCH == <<"s", "e", "a", "r", "c", "h">>

QHas(qd, key) == \E i \in 1..Len(qd) : qd[i].key = key

\* QueryDict.getlist(key): every value of the key, [] when absent
QGetList(qd, key) ==
    IF QHas(qd, key) THEN qd[CHOOSE i \in 1..Len(qd) : qd[i].key = key].vals ELSE <<>>

\* QueryDict.get(key, default): the LAST value of the key
QGet(qd, key, default) ==
    LET l == QGetList(qd, key)
    IN  IF l = <<>> THEN default ELSE l[Len(l)]

\* QueryDict.__setitem__: the key's list becomes [value]; a new key is appended
QSetItem(qd, key, value) ==
    IF QHas(qd, key)
    THEN [i \in 1..Len(qd) |->
            IF qd[i].key = key THEN [key |-> key, vals |-> <<value>>] ELSE qd[i]]
    ELSE Append(qd, [key |-> key, vals |-> <<value>>])

\* QueryDict.appendlist, used while a query string is parsed
QAppendList(qd, key, value) ==
    IF QHas(qd, key)
    THEN [i \in 1..Len(qd) |->
            IF qd[i].key = key THEN [key |-> key, vals |-> Append(qd[i].vals, value)]
            ELSE qd[i]]
    ELSE Append(qd, [key |-> key, vals |-> <<value>>])

\* the percent escapes of the reserved characters the model's texts use
Escapes ==
    <<  <<"+", "2", "B">>, <<"&", "2", "6">>, <<"=", "3", "D">>,
        <<"%", "2", "5">>, <<"?", "3", "F">>, <<"/", "2", "F">>  >>

IsReserved(c) == \E i \in 1..Len(Escapes) : Escapes[i][1] = c

EscapeOf(c) == Escapes[CHOOSE i \in 1..Len(Escapes) : Escapes[i][1] = c]

\* urllib.parse.quote_plus: space becomes "+", reserved characters "%XX"
RECURSIVE QuotePlus(_)
QuotePlus(s) ==
    IF s = <<>> THEN <<>>
    ELSE LET c == Head(s)
             e == IF c = " " THEN <<"+">>
                  ELSE IF IsReserved(c) THEN <<"%", EscapeOf(c)[2], EscapeOf(c)[3]>>
                  ELSE <<c>>
         IN  e \o QuotePlus(Tail(s))

IsEscape(a, b) == \E i \in 1..Len(Escapes) : Escapes[i][2] = a /\ Escapes[i][3] = b

Unescape(a, b) ==
    Escapes[CHOOSE i \in 1..Len(Escapes) : Escapes[i][2] = a /\ Escapes[i][3] = b][1]

\* urllib.parse.unquote_plus: "+" becomes space, "%XX" its character; a "%"
\* that starts no escape stays as it is
RECURSIVE UnquotePlus(_)
UnquotePlus(s) ==
    IF s = <<>> THEN <<>>
    ELSE IF Head(s) = "+" THEN <<" ">> \o UnquotePlus(Tail(s))
    ELSE IF Head(s) = "%" /\ Len(s) >= 3 /\ IsEscape(s[2], s[3])
         THEN <<Unescape(s[2], s[3])>> \o UnquotePlus(SubSeq(s, 4, Len(s)))
    ELSE <<Head(s)>> \o UnquotePlus(Tail(s))

\* "sep".join(parts)
RECURSIVE Join(_, _)
Join(parts, sep) ==
    IF parts = <<>> THEN <<>>
    ELSE IF Len(parts) = 1 THEN parts[1]
    ELSE parts[1] \o sep \o Join(Tail(parts), sep)

\* the "k=v" pairs of one key, one per value
RECURSIVE EncodeVals(_, _)
EncodeVals(key, vals) ==
    IF vals = <<>> THEN <<>>
    ELSE <<QuotePlus(key) \o <<"=">> \o QuotePlus(Head(vals))>> \o EncodeVals(key, Tail(vals))

RECURSIVE EncodePairs(_)
EncodePairs(qd) ==
    IF qd = <<>> THEN <<>>
    ELSE EncodeVals(Head(qd).key, Head(qd).vals) \o EncodePairs(Tail(qd))

\* QueryDict.urlencode(): every value of every key, joined by "&"
UrlEncode(qd) == Join(EncodePairs(qd), <<"&">>)

\* index of the first occurrence of character c in s, 0 when there is none
FirstIndex(s, c) ==
    IF \E i \in 1..Len(s) : s[i] = c
    THEN CHOOSE i \in 1..Len(s) : s[i] = c /\ \A j \in 1..(i - 1) : s[j] # c
    ELSE 0

\* text.split(sep) on a one-character separator
RECURSIVE Split(_, _)
Split(s, c) ==
    LET i == FirstIndex(s, c)
    IN  IF i = 0 THEN <<s>>
        ELSE <<SubSeq(s, 1, i - 1)>> \o Split(SubSeq(s, i + 1, Len(s)), c)

\* QueryDict(query_string): parse_qsl with keep_blank_values, each pair
\* split at its first "=", both sides unquoted, appended in order
RECURSIVE ParsePairs(_, _)
ParsePairs(pieces, qd) ==
    IF pieces = <<>> THEN qd
    ELSE LET p  == Head(pieces)
             i  == FirstIndex(p, "=")
             k  == IF i = 0 THEN p ELSE SubSeq(p, 1, i - 1)
             v  == IF i = 0 THEN <<>> ELSE SubSeq(p, i + 1, Len(p))
         IN  IF p = <<>> THEN ParsePairs(Tail(pieces), qd)
             ELSE ParsePairs(Tail(pieces), QAppendList(qd, UnquotePlus(k), UnquotePlus(v)))

ParseQS(qs) == ParsePairs(Split(qs, "&"), <<>>)

\* the query part of a URL: what follows its first "?"
UrlQuery(url) ==
    LET i == FirstIndex(url, "?")
    IN  IF i = 0 THEN <<>> ELSE SubSeq(url, i + 1, Len(url))

\* the QueryDict a client's request for `url` carries
RequestFor(url) == ParseQS(UrlQuery(url))

---------------------------------------------------------------------------
(* pagination.py                                                           *)

DefaultPage == 1

DefaultLimit == 10

MaxLimit == 100

\* settings.BASE_URL followed by request.path
BaseUrl == <<"h", ":", "/", "/", "x", "/", "a", "p", "i", "/">>

\* page = int(page_param) if page_param else 1; page = max(1, page);
\* ValueError / TypeError -> 1
ParsePage(page_param) ==
    IF page_param = None \/ page_param = <<>> THEN DefaultPage
    ELSE IF PyInt(page_param).ok THEN Max(1, PyInt(page_param).val)
    ELSE DefaultPage

\* faulty variant: the limit is raised to 1 but not capped at 100
ParseLimit_NoCap(limit_param) ==
    IF limit_param = None \/ limit_param = <<>> THEN DefaultLimit
    ELSE IF PyInt(limit_param).ok THEN Max(1, PyInt(limit_param).val)
    ELSE DefaultLimit

\* limit = int(limit_param) if limit_param else 10;
\* limit = max(1, min(limit, 100)); ValueError / TypeError -> 10
ParseLimit(limit_param) ==
    IF limit_param = None \/ limit_param = <<>> THEN DefaultLimit
    ELSE IF PyInt(limit_param).ok THEN Max(1, Min(PyInt(limit_param).val, MaxLimit))
    ELSE DefaultLimit

\* faulty variant: pagination is applied even when neither parameter is present
get_pagination_params_AlwaysPaginate(qp) ==
    [should_paginate |-> TRUE,
     page  |-> ParsePage(QGet(qp, PAGE, None)),
     limit |-> ParseLimit(QGet(qp, LIMIT, None))]

\* faulty variant: one try block around both conversions, so a bad page also
\* discards the limit
get_pagination_params_SharedTry(qp) ==
    LET page_param  == QGet(qp, PAGE, None)
        limit_param == QGet(qp, LIMIT, None)
        Bad(raw)    == raw # None /\ raw # <<>> /\ ~PyInt(raw).ok
    IN  IF page_param = None /\ limit_param = None
        THEN [should_paginate |-> FALSE, page |-> 1, limit |-> DefaultLimit]
        ELSE IF Bad(page_param) \/ Bad(limit_param)
        THEN [should_paginate |-> TRUE, page |-> DefaultPage, limit |-> DefaultLimit]
        ELSE [should_paginate |-> TRUE,
              page  |-> ParsePage(page_param),
              limit |-> ParseLimit(limit_param)]

get_pagination_params(qp) ==
    LET page_param  == QGet(qp, PAGE, None)
        limit_param == QGet(qp, LIMIT, None)
    IN  IF page_param = None /\ limit_param = None
        THEN [should_paginate |-> FALSE, page |-> 1, limit |-> DefaultLimit]
        ELSE [should_paginate |-> TRUE,
              page  |-> ParsePage(page_param),
              limit |-> ParseLimit(limit_param)]

\* Paginator.num_pages with orphans = 0 and allow_empty_first_page:
\* ceil(max(1, count) / per_page)
NumPages(count, per_page) == (Max(1, count) + per_page - 1) \div per_page

\* faulty variant: the requested number is used as it is (Paginator.page, no clamp)
GetPageNumber_NoClamp(number, count, per_page) == number

\* Paginator.get_page(number): a number below 1 or above num_pages raises
\* EmptyPage inside validate_number, and get_page then serves the last page
GetPageNumber(number, count, per_page) ==
    IF number < 1 \/ number > NumPages(count, per_page)
    THEN NumPages(count, per_page)
    ELSE number

\* faulty variant: the slice starts one page too far
PageObjects_OffByOne(qs, number, per_page) ==
    LET bottom == number * per_page
        top    == IF bottom + per_page >= Len(qs) THEN Len(qs) ELSE bottom + per_page
    IN  SubSeq(qs, bottom + 1, top)

\* Paginator.page(number).object_list: object_list[bottom:top]
PageObjects(qs, number, per_page) ==
    LET bottom == (number - 1) * per_page
        top    == IF bottom + per_page >= Len(qs) THEN Len(qs) ELSE bottom + per_page
    IN  SubSeq(qs, bottom + 1, top)

\* Page.has_next() / Page.has_previous()
HasNext(number, count, per_page) == number < NumPages(count, per_page)

HasPrevious(number) == number > 1

\* faulty variant: the link is built from an empty QueryDict, not from a copy of
\* the request's
build_pagination_url_FreshQuery(qp, page_number, limit) ==
    LET q1 == QSetItem(<<>>, PAGE, PyStr(page_number))
        q2 == QSetItem(q1, LIMIT, PyStr(limit))
    IN  BaseUrl \o <<"?">> \o UrlEncode(q2)

\* faulty variant: the two assignments are swapped
build_pagination_url_Swapped(qp, page_number, limit) ==
    LET q1 == QSetItem(qp, PAGE, PyStr(limit))
        q2 == QSetItem(q1, LIMIT, PyStr(page_number))
    IN  BaseUrl \o <<"?">> \o UrlEncode(q2)

\* build_pagination_url: a copy of the request's QueryDict with page and
\* limit set (urlencode renders the two integers with str())
build_pagination_url(qp, page_number, limit) ==
    LET q1 == QSetItem(qp, PAGE, PyStr(page_number))
        q2 == QSetItem(q1, LIMIT, PyStr(limit))
    IN  BaseUrl \o <<"?">> \o UrlEncode(q2)

\* faulty variant: total is the length of the page that is returned
apply_manual_pagination_PageTotal(qs, qp) ==
    LET pp     == get_pagination_params(qp)
        limit  == pp.limit
        count  == Len(qs)
        number == GetPageNumber(pp.page, count, limit)
    IN  IF ~pp.should_paginate
        THEN [data |-> qs, total |-> Len(qs), next |-> None, previous |-> None]
        ELSE [data     |-> PageObjects(qs, number, limit),
              total    |-> Len(PageObjects(qs, number, limit)),
              next     |-> IF HasNext(number, count, limit)
                           THEN build_pagination_url(qp, number + 1, limit)
                           ELSE None,
              previous |-> IF HasPrevious(number)
                           THEN build_pagination_url(qp, number - 1, limit)
                           ELSE None]

apply_manual_pagination(qs, qp) ==
    LET pp     == get_pagination_params(qp)
        limit  == pp.limit
        count  == Len(qs)
        number == GetPageNumber(pp.page, count, limit)
    IN  IF ~pp.should_paginate
        THEN [data |-> qs, total |-> Len(qs), next |-> None, previous |-> None]
        ELSE [data     |-> PageObjects(qs, number, limit),
              total    |-> count,
              next     |-> IF HasNext(number, count, limit)
                           THEN build_pagination_url(qp, number + 1, limit)
                           ELSE None,
              previous |-> IF HasPrevious(number)
                           THEN build_pagination_url(qp, number - 1, limit)
                           ELSE None]

\* The two queries of one apply_manual_pagination call.  The first is the
\* SELECT COUNT(*) of Paginator.count, which get_page needs to validate the
\* number (queryset.count() when the request does not paginate); the Page
\* then holds the slice object_list[bottom:top] unevaluated, and the links
\* are built from the count.
CountedPage(qs, qp) ==
    LET pp     == get_pagination_params(qp)
        limit  == pp.limit
        count  == Len(qs)
        number == GetPageNumber(pp.page, count, limit)
        bottom == (number - 1) * limit
    IN  IF ~pp.should_paginate
        THEN [paginate |-> FALSE, bottom |-> 0, top |-> 0, total |-> count,
              next |-> None, previous |-> None]
        ELSE [paginate |-> TRUE,
              bottom   |-> bottom,
              top      |-> IF bottom + limit >= count THEN count ELSE bottom + limit,
              total    |-> count,
              next     |-> IF HasNext(number, count, limit)
                           THEN build_pagination_url(qp, number + 1, limit)
                           ELSE None,
              previous |-> IF HasPrevious(number)
                           THEN build_pagination_url(qp, number - 1, limit)
                           ELSE None]

\* faulty variant: the second query has an OFFSET but no LIMIT
FetchPage_NoLimit(counted, qs) ==
    IF ~counted.paginate THEN qs
    ELSE SubSeq(qs, counted.bottom + 1, Len(qs))

\* The second query, sent when the response iterates over 'data': the rows
\* at OFFSET bottom LIMIT top - bottom of the table as it is by then (every
\* row when the request does not paginate)
FetchPage(counted, qs) ==
    IF ~counted.paginate THEN qs
    ELSE SubSeq(qs, counted.bottom + 1,
                IF counted.top <= Len(qs) THEN counted.top ELSE Len(qs))

---------------------------------------------------------------------------
(* The record model the list endpoints serve: a text field, a choice       *)
(* field, a boolean field and an integer field                             *)

NAME == <<"n", "a", "m", "e">>

STATUS == <<"s", "t", "a", "t", "u", "s">>

IS_ACTIVE == <<"i", "s", "_", "a", "c", "t", "i", "v", "e">>

LEVEL == <<"l", "e", "v", "e", "l">>

CREATED_AT == <<"c", "r", "e", "a", "t", "e", "d", "_", "a", "t">>

\* a name no field of the model has
NOFIELD == <<"z", "z">>

ACTIVE == <<"a", "c", "t", "i", "v", "e">>

INACTIVE == <<"i", "n", "a", "c", "t", "i", "v", "e">>

PENDING == <<"p", "e", "n", "d", "i", "n", "g">>

ModelFields == {NAME, STATUS, IS_ACTIVE, LEVEL, CREATED_AT}

\* model_field.get_internal_type()
InternalType(field) ==
    CASE field = IS_ACTIVE -> "BooleanField"
      [] field = LEVEL     -> "IntegerField"
      [] field = CREATED_AT -> "DateTimeField"
      [] OTHER             -> "CharField"

\* [choice[0] for choice in model_field.choices]; empty when the field has none
ValidChoices(field) == IF field = STATUS THEN <<ACTIVE, INACTIVE, PENDING>> ELSE <<>>

InSeq(x, seq) == \E i \in 1..Len(seq) : seq[i] = x

Lowers == <<"a", "b", "c", "d", "e", "f", "g", "h", "i", "j", "k", "l", "m",
            "n", "o", "p", "q", "r", "s", "t", "u", "v", "w", "x", "y", "z">>

Uppers == <<"A", "B", "C", "D", "E", "F", "G", "H", "I", "J", "K", "L", "M",
            "N", "O", "P", "Q", "R", "S", "T", "U", "V", "W", "X", "Y", "Z">>

LowerChar(c) ==
    IF \E i \in 1..26 : Uppers[i] = c
    THEN Lowers[CHOOSE i \in 1..26 : Uppers[i] = c]
    ELSE c

\* str.lower()
Lower(s) == [i \in 1..Len(s) |-> LowerChar(s[i])]

\* the icontains lookup: needle occurs in hay, letter case ignored
IContains(hay, needle) ==
    \E i \in 1..(Len(hay) - Len(needle) + 1) :
        Lower(SubSeq(hay, i, i + Len(needle) - 1)) = Lower(needle)

\* the text a record holds in a searchable field
TextOf(rec, field) ==
    CASE field = NAME   -> rec.name
      [] field = STATUS -> rec.status
      [] OTHER          -> <<>>

---------------------------------------------------------------------------
(* Exceptions: the outcome of a call is [ok, value]; value is the returned *)
(* object, or the class of the exception that left the call                *)

Returned(v) == [ok |-> TRUE, value |-> v]

Raised(cls) == [ok |-> FALSE, value |-> cls]

\* the class with its base classes (django.core.exceptions, builtins)
Bases(cls) ==
    CASE cls \in {"InvalidToken"} ->
            {cls, "AuthenticationFailed", "APIException", "Exception"}
      [] cls \in {"APIError", "AuthenticationFailed", "NotAuthenticated",
                  "PermissionDenied", "Throttled", "ValidationError", "NotFound",
                  "MethodNotAllowed"} ->
            {cls, "APIException", "Exception"}
      [] cls = "DoesNotExist" -> {cls, "ObjectDoesNotExist", "Exception"}
      [] OTHER -> {cls, "Exception"}

\* whether `except (classes)` catches an exception of class cls
Catches(classes, cls) == Bases(cls) \cap classes # {}

---------------------------------------------------------------------------
(* filters.py                                                              *)

\* Q(f1__icontains=term) | Q(f2__icontains=term) | ... applied to a collection
SearchAny(qs, fields, term) ==
    LET Hit(rec) == \E i \in 1..Len(fields) : IContains(TextOf(rec, fields[i]), term)
    IN  SelectSeq(qs, Hit)

apply_search_filter(qs, qp, fields) ==
    LET search_term == Strip(QGet(qp, SEARCH, <<>>))
    IN  IF search_term = <<>> \/ fields = <<>> THEN qs
        ELSE SearchAny(qs, fields, search_term)

\* [v.strip() for v in values if v and v.strip()]
StrippedValues(values) ==
    LET Keep(v) == v # <<>> /\ Strip(v) # <<>>
        kept    == SelectSeq(values, Keep)
    IN  [i \in 1..Len(kept) |-> Strip(kept[i])]

BoolWords ==
    {<<"t", "r", "u", "e">>, <<"f", "a", "l", "s", "e">>, <<"1">>, <<"0">>}

TrueWords == {<<"t", "r", "u", "e">>, <<"1">>}

\* faulty variant: the words are compared as sent, letter case included
ConvertedValues_CaseSensitive(values) ==
    LET IsBool(v) == v \in BoolWords
        kept      == SelectSeq(values, IsBool)
    IN  [i \in 1..Len(kept) |-> kept[i] \in TrueWords]

\* the boolean branch: values outside true/false/1/0 are dropped, the rest
\* become val.lower() in ('true', '1')
ConvertedValues(values) ==
    LET IsBool(v) == Lower(v) \in BoolWords
        kept      == SelectSeq(values, IsBool)
    IN  [i \in 1..Len(kept) |-> Lower(kept[i]) \in TrueWords]

\* faulty variant: values outside the choices are kept
ChoiceValues_KeepAll(values, field) == values

\* values = [v for v in values if v in valid_choices]
ChoiceValues(values, field) ==
    LET Valid(v) == InSeq(v, ValidChoices(field))
    IN  SelectSeq(values, Valid)

\* faulty variant: only the first of several values is used
FilterValues_FirstOnly(qs, field, values) ==
    LET MatchBool(rec) == rec.is_active = values[1]
        MatchInt(rec)  == rec.level = PyInt(values[1]).val
        MatchText(rec) == TextOf(rec, field) = values[1]
    IN  CASE InternalType(field) = "BooleanField" -> Returned(SelectSeq(qs, MatchBool))
          [] InternalType(field) = "IntegerField" ->
                IF \E i \in 1..Len(values) : ~PyInt(values[i]).ok THEN Returned(qs)
                ELSE Returned(SelectSeq(qs, MatchInt))
          [] OTHER -> Returned(SelectSeq(qs, MatchText))

\* queryset.filter(field=values[0]) for one value, filter(field__in=values)
\* for several; an integer field prepares each value with int() and raises
\* ValueError for a bad one
OrmFilter(qs, field, values) ==
    LET MatchBool(rec) == IF Len(values) = 1 THEN rec.is_active = values[1]
                          ELSE InSeq(rec.is_active, values)
        MatchInt(rec)  == IF Len(values) = 1 THEN rec.level = PyInt(values[1]).val
                          ELSE \E i \in 1..Len(values) : rec.level = PyInt(values[i]).val
        MatchText(rec) == IF Len(values) = 1 THEN TextOf(rec, field) = values[1]
                          ELSE InSeq(TextOf(rec, field), values)
    IN  CASE InternalType(field) = "BooleanField" -> Returned(SelectSeq(qs, MatchBool))
          [] InternalType(field) = "IntegerField" ->
                IF \E i \in 1..Len(values) : ~PyInt(values[i]).ok THEN Raised("ValueError")
                ELSE Returned(SelectSeq(qs, MatchInt))
          [] OTHER -> Returned(SelectSeq(qs, MatchText))

\* try: <outcome> except (classes): <handled> -- the outcome of the
\* statement: that of the handler when the clause catches what was raised
Except(outcome, classes, handled) ==
    IF ~outcome.ok /\ Catches(classes, outcome.value) THEN handled ELSE outcome

\* faulty variant: the clause around the filter catches TypeError only
FilterValues_CatchTypeError(qs, field, values) ==
    Except(OrmFilter(qs, field, values), {"TypeError"}, Returned(qs))

\* try: queryset.filter(...) except (ValueError, TypeError, Exception): continue
\* -- a caught error leaves the collection as it was
FilterValues(qs, field, values) ==
    Except(OrmFilter(qs, field, values), {"ValueError", "TypeError", "Exception"},
           Returned(qs))

\* model._meta.get_field(field)
GetField(field) ==
    IF field \in ModelFields THEN Returned(field) ELSE Raised("FieldDoesNotExist")

\* one turn of the loop over filter_fields
ExactFilterField(qs, qp, field) ==
    LET raw         == QGetList(qp, field)
        values      == StrippedValues(raw)
        model_field == GetField(field)
        typed       == IF InternalType(field) = "BooleanField" THEN ConvertedValues(values)
                       ELSE IF ValidChoices(field) # <<>> THEN ChoiceValues(values, field)
                       ELSE values
    IN  IF raw = <<>> \/ values = <<>> THEN Returned(qs)
        ELSE IF ~model_field.ok THEN Except(model_field, {"Exception"}, Returned(qs))
        ELSE IF typed = <<>> THEN Returned(qs)
        ELSE FilterValues(qs, field, typed)

\* the outcome of a turn: an error carries the collection filtered so far
TurnOutcome(turn, qs) ==
    IF turn.ok THEN turn ELSE [ok |-> FALSE, value |-> turn.value, kept |-> qs]

\* the loop over filter_fields inside the outer try; an error that leaves a
\* turn ends the loop
RECURSIVE ExactFilterLoop(_, _, _)
ExactFilterLoop(res, qp, fields) ==
    IF fields = <<>> \/ ~res.ok THEN res
    ELSE ExactFilterLoop(TurnOutcome(ExactFilterField(res.value, qp, Head(fields)),
                                     res.value),
                         qp, Tail(fields))

\* except AttributeError: return queryset -- the collection filtered so far
OuterExcept(looped) ==
    IF looped.ok THEN looped
    ELSE IF Catches({"AttributeError"}, looped.value) THEN Returned(looped.kept)
    ELSE Raised(looped.value)

\* apply_exact_filters(request, queryset, filter_fields)
apply_exact_filters(qs, qp, fields) ==
    IF fields = <<>> THEN Returned(qs)
    ELSE OuterExcept(ExactFilterLoop(Returned(qs), qp, fields))

SORT_BY == <<"s", "o", "r", "t", "_", "b", "y">>

\* sort_by.lstrip('-'): every leading '-' is removed
RECURSIVE LStripDash(_)
LStripDash(s) == IF s # <<>> /\ Head(s) = "-" THEN LStripDash(Tail(s)) ELSE s

\* the value a record is ordered by (the order of names depends on the
\* database collation and is not modelled)
OrderValue(rec, field) ==
    CASE field = CREATED_AT -> rec.created_at
      [] field = LEVEL      -> rec.level
      [] field = IS_ACTIVE  -> IF rec.is_active THEN 1 ELSE 0
      [] field = STATUS     -> CHOOSE i \in 1..Len(ValidChoices(STATUS)) :
                                    ValidChoices(STATUS)[i] = rec.status

\* ORDER BY field [DESC]
IsOrderedBy(seq, field, descending) ==
    \A i, j \in 1..Len(seq) :
        i < j => IF descending
                 THEN OrderValue(seq[i], field) >= OrderValue(seq[j], field)
                 ELSE OrderValue(seq[i], field) <= OrderValue(seq[j], field)

\* the arrangements of the collection's records
Arrangements(qs) ==
    {[i \in 1..Len(qs) |-> qs[f[i]]] : f \in Permutations(1..Len(qs))}

\* queryset.order_by(key): one leading '-' asks for descending order; what
\* remains must name a field, or FieldError is raised.  Records equal in the
\* field come in any order, so the outcomes are a set.
order_by(qs, key) ==
    LET descending == key # <<>> /\ Head(key) = "-"
        item       == IF descending THEN Tail(key) ELSE key
    IN  IF item \notin ModelFields THEN {Raised("FieldError")}
        ELSE {Returned(seq) : seq \in {a \in Arrangements(qs) : IsOrderedBy(a, item, descending)}}

\* apply_sorting(request, queryset, allowed_fields, default): the set of its
\* outcomes
apply_sorting(qs, qp, allowed_fields, default) ==
    LET sort_by    == QGet(qp, SORT_BY, default)
        field_name == LStripDash(sort_by)
        requested  == order_by(qs, sort_by)
        Caught(r)  == ~r.ok /\ Catches({"ValueError", "TypeError"}, r.value)
    IN  IF InSeq(field_name, allowed_fields)
        THEN {r \in requested : ~Caught(r)}
                \cup (IF \E r \in requested : Caught(r) THEN order_by(qs, default) ELSE {})
        ELSE order_by(qs, default)

\* apply_all_filters(request, queryset, search_fields, filter_fields,
\* sort_fields, default_sort): the set of its outcomes
apply_all_filters(qs, qp, s_fields, f_fields, allowed_fields, default) ==
    LET searched == IF s_fields # <<>> THEN apply_search_filter(qs, qp, s_fields) ELSE qs
        Sorted(filtered) ==
            IF ~filtered.ok THEN {filtered}
            ELSE IF allowed_fields # <<>>
                 THEN apply_sorting(filtered.value, qp, allowed_fields, default)
            ELSE {filtered}
    IN  Sorted(IF f_fields # <<>> THEN apply_exact_filters(searched, qp, f_fields)
               ELSE Returned(searched))

---------------------------------------------------------------------------
(* base_master_views.py: the list view's own filter step                   *)

\* parse_multiple_values: empty values are skipped, a value int() accepts
\* becomes the integer (kept here as [int |-> TRUE, n]), any other stays text
ProcessedValues(values) ==
    LET NonEmpty(v) == v # <<>>
        kept        == SelectSeq(values, NonEmpty)
    IN  [i \in 1..Len(kept) |->
            IF PyInt(kept[i]).ok
            THEN [int |-> TRUE, n |-> PyInt(kept[i]).val, text |-> <<>>]
            ELSE [int |-> FALSE, n |-> 0, text |-> kept[i]]]

\* the texts BooleanField.to_python accepts
BoolTrueTexts == {<<"t">>, <<"T", "r", "u", "e">>, <<"1">>}

BoolFalseTexts == {<<"f">>, <<"F", "a", "l", "s", "e">>, <<"0">>}

\* whether the field's get_prep_value accepts the value of an __in lookup
Prepares(field, v) ==
    CASE InternalType(field) = "BooleanField" ->
            IF v.int THEN v.n \in {0, 1} ELSE v.text \in BoolTrueTexts \cup BoolFalseTexts
      [] InternalType(field) = "IntegerField" -> v.int
      [] OTHER -> TRUE

\* whether the record's field equals the prepared value
MatchesPrepared(rec, field, v) ==
    CASE InternalType(field) = "BooleanField" ->
            rec.is_active = (IF v.int THEN v.n = 1 ELSE v.text \in BoolTrueTexts)
      [] InternalType(field) = "IntegerField" -> rec.level = v.n
      [] OTHER -> TextOf(rec, field) = (IF v.int THEN PyStr(v.n) ELSE v.text)

\* for field in multiple_filter_fields: queryset.filter(field__in=values);
\* a value the field cannot prepare, or a name the model lacks, raises
RECURSIVE MasterMultiFilter(_, _, _)
MasterMultiFilter(res, qp, fields) ==
    IF fields = <<>> \/ ~res.ok THEN res
    ELSE LET field      == Head(fields)
             values     == ProcessedValues(QGetList(qp, field))
             Match(rec) == \E i \in 1..Len(values) : MatchesPrepared(rec, field, values[i])
             step       ==
                IF values = <<>> THEN res
                ELSE IF field \notin ModelFields
                        \/ \E i \in 1..Len(values) : ~Prepares(field, values[i])
                     THEN [ok |-> FALSE, value |-> <<>>]
                ELSE [ok |-> TRUE, value |-> SelectSeq(res.value, Match)]
         IN  MasterMultiFilter(step, qp, Tail(fields))

\* BaseMasterListCreateView.apply_filters (no filter_parameter_mapping declared)
master_apply_filters(qs, qp, s_fields, m_fields) ==
    LET search   == QGet(qp, SEARCH, None)
        searched == IF search # None /\ search # <<>> /\ s_fields # <<>>
                    THEN SearchAny(qs, s_fields, search)
                    ELSE qs
    IN  MasterMultiFilter([ok |-> TRUE, value |-> searched], qp, m_fields)

---------------------------------------------------------------------------
(* users/models.py, audit/models.py, audit/services.py: recording events   *)

USER_CREATED == <<"u", "s", "e", "r", "_", "c", "r", "e", "a", "t", "e", "d">>

USER_DELETED == <<"u", "s", "e", "r", "_", "d", "e", "l", "e", "t", "e", "d">>

\* an action key ACTION_CHOICES and ACTION_DESCRIPTIONS do not list
ORDER_PLACED == <<"o", "r", "d", "e", "r", "_", "p", "l", "a", "c", "e", "d">>

USERS == <<"u", "s", "e", "r", "s">>

SUCCESS == <<"s", "u", "c", "c", "e", "s", "s">>

FAILURE == <<"f", "a", "i", "l", "u", "r", "e">>

WARNING == <<"w", "a", "r", "n", "i", "n", "g">>

ADMIN == <<"a", "d", "m", "i", "n">>

MANAGER == <<"m", "a", "n", "a", "g", "e", "r">>

\* an optional text argument the caller leaves out
NOT_GIVEN == <<"<omitted>">>

\* None where an integer or an object is expected: the user and the
\* related_object_id arguments default to it, and a nullable integer column
\* holds it for NULL
NoneInt == -1

\* the dict {} as its JSON text
EmptyDict == <<"{", "}">>

\* the stored users: the first belongs to the group admin, the second to no
\* group, so that User.role is None for it
Users ==
    <<  [id |-> 1, full_name |-> <<"A", "n", "n", " ", "B">>, role |-> ADMIN],
        [id |-> 2, full_name |-> <<"b", "o", "b">>, role |-> None]  >>

\* the argument the call supplies, or the default of the signature
Given(args, name, default) == IF args[name] = NOT_GIVEN THEN default ELSE args[name]

\* Python truth of a text or None
Truthy(x) == x # None /\ x # <<>>

\* the clock: it advances with every insert
Now(table) == table.last_id + 1

\* columns of audit_logs declared without null=True
NotNullColumns ==
    {"action", "action_details", "performed_by_role", "module", "status",
     "from_status", "to_status", "changed_fields"}

\* AuditLog.objects.create(**fields): one INSERT; a None in a NOT NULL
\* column is refused by the database
Create(table, fields) ==
    IF \E c \in NotNullColumns : fields[c] = None
    THEN [result |-> Raised("IntegrityError"), table |-> table]
    ELSE LET row == [id |-> table.last_id + 1,
                     created_at |-> Now(table),
                     updated_at |-> Now(table),
                     deleted_at |-> NoneInt] @@ fields
         IN  [result |-> Returned(row),
              table  |-> [rows |-> Append(table.rows, row), last_id |-> row.id]]

\* log_audit_event(action, module, user=None, user_role=None, ...): a user is
\* passed as the id of the stored user, a dict as its JSON text
log_audit_event(table, args) ==
    LET user           == args.user
        given_role     == Given(args, "user_role", None)
        user_role      == IF user # NoneInt /\ ~Truthy(given_role)
                          THEN Users[user].role
                          ELSE given_role
        changed_fields == Given(args, "changed_fields", None)
    IN  Create(table,
               [action            |-> args.action,
                action_details    |-> Given(args, "action_details", <<>>),
                performed_by      |-> user,
                performed_by_role |-> user_role,
                module            |-> args.module,
                status            |-> Given(args, "status", SUCCESS),
                from_status       |-> Given(args, "from_status", <<>>),
                to_status         |-> Given(args, "to_status", <<>>),
                changed_fields    |-> IF changed_fields = None \/ changed_fields = EmptyDict
                                      THEN EmptyDict
                                      ELSE changed_fields,
                related_object_id |-> args.related_object_id])

---------------------------------------------------------------------------
(* managers.py, models.py: soft delete.  A queryset over the table is the  *)
(* set of the ids it selects.                                              *)

Ids(rows) == {rows[i].id : i \in 1..Len(rows)}

\* SoftDeleteQuerySet.alive / dead
alive(rows) == SelectSeq(rows, LAMBDA row : row.deleted_at = NoneInt)

dead(rows) == SelectSeq(rows, LAMBDA row : row.deleted_at # NoneInt)

\* SoftDeleteManager.get_queryset: what Model.objects selects
objects(table) == alive(table.rows)

\* SoftDeleteManager.with_deleted / deleted
with_deleted(table) == table.rows

deleted(table) == dead(with_deleted(table))

\* queryset.update(deleted_at=value) over the rows the queryset selects
UpdateDeletedAt(table, ids, value) ==
    [table EXCEPT !.rows =
        [i \in 1..Len(table.rows) |->
            IF table.rows[i].id \in ids
            THEN [table.rows[i] EXCEPT !.deleted_at = value]
            ELSE table.rows[i]]]

\* SoftDeleteQuerySet.delete
qs_delete(table, ids) == UpdateDeletedAt(table, ids, Now(table))

\* SoftDeleteQuerySet.undelete
qs_undelete(table, ids) == UpdateDeletedAt(table, ids, NoneInt)

\* SoftDeleteQuerySet.hard_delete
qs_hard_delete(table, ids) ==
    [table EXCEPT !.rows = SelectSeq(table.rows, LAMBDA row : row.id \notin ids)]

\* faulty variant: the save writes updated_at as well
instance_delete_FullSave(table, id) ==
    [table EXCEPT !.rows =
        [i \in 1..Len(table.rows) |->
            IF table.rows[i].id = id
            THEN [table.rows[i] EXCEPT !.deleted_at = Now(table),
                                       !.updated_at = Now(table)]
            ELSE table.rows[i]]]

\* BaseModel.delete: save(update_fields=['deleted_at'])
instance_delete(table, id) == UpdateDeletedAt(table, {id}, Now(table))

\* BaseModel.restore
instance_restore(table, id) == UpdateDeletedAt(table, {id}, NoneInt)

\* BaseModel.hard_delete
instance_hard_delete(table, id) ==
    [table EXCEPT !.rows = SelectSeq(table.rows, LAMBDA row : row.id # id)]

---------------------------------------------------------------------------
(* api_responses/constants.py: message codes and their texts               *)

SUCCESS_GENERIC == 1000

SUCCESS_USER_REGISTERED == 1001

SUCCESS_USER_LOGIN == 1002

SUCCESS_ACCESS_TOKEN_RETRIEVED == 1003

SUCCESS_LOGOUT == 1004

SUCCESS_USER_INFO_FETCHED == 1007

SUCCESS_USER_PROFILE_FETCHED == 1011

SUCCESS_USER_PROFILE_UPDATED == 1012

SUCCESS_PASSWORD_RESET_EMAIL_SENT == 1008

SUCCESS_PASSWORD_RESET == 1009

SUCCESS_PASSWORD_CHANGED == 1010

SUCCESS_USERS_RETRIEVED == 1400

SUCCESS_USER_RETRIEVED == 1401

SUCCESS_USER_CREATED == 1402

SUCCESS_USER_UPDATED == 1403

SUCCESS_AUDIT_LOGS_RETRIEVED == 1404

SUCCESS_NO_DATA_FOUND == 1905

ERROR_GENERIC == 2000

ERROR_INPUT == 2001

ERROR_VALIDATION == 2002

ERROR_AUTH_CREDENTIALS_NOT_PROVIDED == 3001

ERROR_INVALID_CREDENTIALS == 3002

ERROR_INVALID_EXPIRED_REFRESH_TOKEN == 3003

ERROR_USER_ACCOUNT_INACTIVE == 3004

ERROR_PERMISSION_DENIED == 3005

ERROR_USER_EMAIL_EXISTS == 4001

ERROR_USER_NOT_FOUND == 4003

ERROR_PROFILE_NOT_FOUND == 4076

ERROR_INVALID_FILE_FORMAT == 4013

ERROR_FILE_SIZE_TOO_LARGE == 4014

ERROR_INVALID_IMAGE_FORMAT == 4060

ERROR_INVALID_DOCUMENT_FORMAT == 4061

ERROR_MASTER_DATA_NOT_FOUND == 4058

ERROR_CANNOT_DEACTIVATE_REFERENCED_ITEM == 4047

ERROR_INTERNAL_SERVER == 5001

ERROR_RATE_LIMIT_EXCEEDED == 5002

VALIDATION_FULL_NAME_NUMERIC ==
    <<"F", "u", "l", "l", " ", "n", "a", "m", "e", " ", "c", "a", "n", "n", "o",
      "t", " ", "c", "o", "n", "t", "a", "i", "n", " ", "n", "u", "m", "e",
      "r", "i", "c", " ", "c", "h", "a", "r", "a", "c", "t", "e", "r", "s">>

VALIDATION_CONTACT_NUMBER_INVALID ==
    <<"C", "o", "n", "t", "a", "c", "t", " ", "n", "u", "m", "b", "e", "r", " ",
      "m", "u", "s", "t", " ", "b", "e", " ", "n", "u", "m", "e", "r", "i",
      "c", " ", "a", "n", "d", " ", "o", "f", " ", "1", "0", " ", "d", "i",
      "g", "i", "t", "s">>

\* the codes MESSAGES has a text for
MessageCodes ==
    {   SUCCESS_GENERIC,
        SUCCESS_USER_REGISTERED,
        SUCCESS_USER_LOGIN,
        SUCCESS_ACCESS_TOKEN_RETRIEVED,
        SUCCESS_LOGOUT,
        SUCCESS_USER_INFO_FETCHED,
        SUCCESS_USER_PROFILE_FETCHED,
        SUCCESS_USER_PROFILE_UPDATED,
        SUCCESS_PASSWORD_RESET_EMAIL_SENT,
        SUCCESS_PASSWORD_RESET,
        SUCCESS_PASSWORD_CHANGED,
        SUCCESS_USERS_RETRIEVED,
        SUCCESS_USER_RETRIEVED,
        SUCCESS_USER_CREATED,
        SUCCESS_USER_UPDATED,
        SUCCESS_AUDIT_LOGS_RETRIEVED,
        SUCCESS_NO_DATA_FOUND,
        ERROR_GENERIC,
        ERROR_INPUT,
        ERROR_VALIDATION,
        ERROR_AUTH_CREDENTIALS_NOT_PROVIDED,
        ERROR_INVALID_CREDENTIALS,
        ERROR_INVALID_EXPIRED_REFRESH_TOKEN,
        ERROR_USER_ACCOUNT_INACTIVE,
        ERROR_PERMISSION_DENIED,
        ERROR_USER_EMAIL_EXISTS,
        ERROR_USER_NOT_FOUND,
        ERROR_PROFILE_NOT_FOUND,
        ERROR_INVALID_FILE_FORMAT,
        ERROR_FILE_SIZE_TOO_LARGE,
        ERROR_INVALID_IMAGE_FORMAT,
        ERROR_INVALID_DOCUMENT_FORMAT,
        ERROR_MASTER_DATA_NOT_FOUND,
        ERROR_CANNOT_DEACTIVATE_REFERENCED_ITEM,
        ERROR_INTERNAL_SERVER,
        ERROR_RATE_LIMIT_EXCEEDED  }

\* MESSAGES[code]
MESSAGES(code) ==
    CASE code = SUCCESS_GENERIC ->
        <<"O", "p", "e", "r", "a", "t", "i", "o", "n", " ", "c", "o", "m", "p", "l",
          "e", "t", "e", "d", " ", "s", "u", "c", "c", "e", "s", "s", "f",
          "u", "l", "l", "y">>
      [] code = SUCCESS_USER_REGISTERED ->
        <<"U", "s", "e", "r", " ", "r", "e", "g", "i", "s", "t", "e", "r", "e", "d",
          " ", "s", "u", "c", "c", "e", "s", "s", "f", "u", "l", "l", "y">>
      [] code = SUCCESS_USER_LOGIN ->
        <<"U", "s", "e", "r", " ", "l", "o", "g", "i", "n", " ", "s", "u", "c", "c",
          "e", "s", "s", "f", "u", "l">>
      [] code = SUCCESS_ACCESS_TOKEN_RETRIEVED ->
        <<"A", "c", "c", "e", "s", "s", " ", "t", "o", "k", "e", "n", " ", "r", "e",
          "t", "r", "i", "e", "v", "e", "d", " ", "s", "u", "c", "c", "e",
          "s", "s", "f", "u", "l", "l", "y">>
      [] code = SUCCESS_LOGOUT ->
        <<"S", "u", "c", "c", "e", "s", "s", "f", "u", "l", "l", "y", " ", "l", "o",
          "g", "g", "e", "d", " ", "o", "u", "t">>
      [] code = SUCCESS_USER_INFO_FETCHED ->
        <<"U", "s", "e", "r", " ", "i", "n", "f", "o", "r", "m", "a", "t", "i", "o",
          "n", " ", "f", "e", "t", "c", "h", "e", "d", " ", "s", "u", "c",
          "c", "e", "s", "s", "f", "u", "l", "l", "y">>
      [] code = SUCCESS_USER_PROFILE_FETCHED ->
        <<"U", "s", "e", "r", " ", "p", "r", "o", "f", "i", "l", "e", " ", "f", "e",
          "t", "c", "h", "e", "d", " ", "s", "u", "c", "c", "e", "s", "s",
          "f", "u", "l", "l", "y">>
      [] code = SUCCESS_USER_PROFILE_UPDATED ->
        <<"P", "r", "o", "f", "i", "l", "e", " ", "u", "p", "d", "a", "t", "e", "d",
          " ", "s", "u", "c", "c", "e", "s", "s", "f", "u", "l", "l", "y">>
      [] code = SUCCESS_PASSWORD_RESET_EMAIL_SENT ->
        <<"P", "a", "s", "s", "w", "o", "r", "d", " ", "r", "e", "s", "e", "t", " ",
          "e", "m", "a", "i", "l", " ", "s", "e", "n", "t", " ", "s", "u",
          "c", "c", "e", "s", "s", "f", "u", "l", "l", "y">>
      [] code = SUCCESS_PASSWORD_RESET ->
        <<"P", "a", "s", "s", "w", "o", "r", "d", " ", "r", "e", "s", "e", "t", " ",
          "s", "u", "c", "c", "e", "s", "s", "f", "u", "l", "l", "y">>
      [] code = SUCCESS_PASSWORD_CHANGED ->
        <<"P", "a", "s", "s", "w", "o", "r", "d", " ", "c", "h", "a", "n", "g", "e",
          "d", " ", "s", "u", "c", "c", "e", "s", "s", "f", "u", "l", "l",
          "y">>
      [] code = SUCCESS_USERS_RETRIEVED ->
        <<"U", "s", "e", "r", "s", " ", "r", "e", "t", "r", "i", "e", "v", "e", "d",
          " ", "s", "u", "c", "c", "e", "s", "s", "f", "u", "l", "l", "y">>
      [] code = SUCCESS_USER_RETRIEVED ->
        <<"U", "s", "e", "r", " ", "r", "e", "t", "r", "i", "e", "v", "e", "d", " ",
          "s", "u", "c", "c", "e", "s", "s", "f", "u", "l", "l", "y">>
      [] code = SUCCESS_USER_CREATED ->
        <<"U", "s", "e", "r", " ", "c", "r", "e", "a", "t", "e", "d", " ", "s", "u",
          "c", "c", "e", "s", "s", "f", "u", "l", "l", "y">>
      [] code = SUCCESS_USER_UPDATED ->
        <<"U", "s", "e", "r", " ", "u", "p", "d", "a", "t", "e", "d", " ", "s", "u",
          "c", "c", "e", "s", "s", "f", "u", "l", "l", "y">>
      [] code = SUCCESS_AUDIT_LOGS_RETRIEVED ->
        <<"A", "u", "d", "i", "t", " ", "l", "o", "g", "s", " ", "r", "e", "t", "r",
          "i", "e", "v", "e", "d", " ", "s", "u", "c", "c", "e", "s", "s",
          "f", "u", "l", "l", "y">>
      [] code = SUCCESS_NO_DATA_FOUND ->
        <<"N", "o", " ", "d", "a", "t", "a", " ", "f", "o", "u", "n", "d">>
      [] code = ERROR_GENERIC ->
        <<"A", "n", " ", "e", "r", "r", "o", "r", " ", "o", "c", "c", "u", "r", "r",
          "e", "d">>
      [] code = ERROR_INPUT ->
        <<"I", "n", "p", "u", "t", " ", "e", "r", "r", "o", "r">>
      [] code = ERROR_VALIDATION ->
        <<"V", "a", "l", "i", "d", "a", "t", "i", "o", "n", " ", "e", "r", "r", "o",
          "r", " ", "o", "c", "c", "u", "r", "r", "e", "d">>
      [] code = ERROR_AUTH_CREDENTIALS_NOT_PROVIDED ->
        <<"A", "u", "t", "h", "e", "n", "t", "i", "c", "a", "t", "i", "o", "n", " ",
          "c", "r", "e", "d", "e", "n", "t", "i", "a", "l", "s", " ", "w",
          "e", "r", "e", " ", "n", "o", "t", " ", "p", "r", "o", "v", "i",
          "d", "e", "d", " ", "o", "r", " ", "a", "r", "e", " ", "i", "n",
          "v", "a", "l", "i", "d">>
      [] code = ERROR_INVALID_CREDENTIALS ->
        <<"I", "n", "v", "a", "l", "i", "d", " ", "c", "r", "e", "d", "e", "n", "t",
          "i", "a", "l", "s", " ", "p", "r", "o", "v", "i", "d", "e", "d">>
      [] code = ERROR_INVALID_EXPIRED_REFRESH_TOKEN ->
        <<"I", "n", "v", "a", "l", "i", "d", " ", "o", "r", " ", "e", "x", "p", "i",
          "r", "e", "d", " ", "r", "e", "f", "r", "e", "s", "h", " ", "t",
          "o", "k", "e", "n">>
      [] code = ERROR_USER_ACCOUNT_INACTIVE ->
        <<"U", "s", "e", "r", " ", "a", "c", "c", "o", "u", "n", "t", " ", "i", "s",
          " ", "i", "n", "a", "c", "t", "i", "v", "e">>
      [] code = ERROR_PERMISSION_DENIED ->
        <<"Y", "o", "u", " ", "d", "o", " ", "n", "o", "t", " ", "h", "a", "v", "e",
          " ", "p", "e", "r", "m", "i", "s", "s", "i", "o", "n", " ", "t",
          "o", " ", "p", "e", "r", "f", "o", "r", "m", " ", "t", "h", "i",
          "s", " ", "a", "c", "t", "i", "o", "n">>
      [] code = ERROR_USER_EMAIL_EXISTS ->
        <<"U", "s", "e", "r", " ", "w", "i", "t", "h", " ", "e", "m", "a", "i", "l",
          " ", "a", "l", "r", "e", "a", "d", "y", " ", "e", "x", "i", "s",
          "t", "s">>
      [] code = ERROR_USER_NOT_FOUND ->
        <<"U", "s", "e", "r", " ", "n", "o", "t", " ", "f", "o", "u", "n", "d">>
      [] code = ERROR_PROFILE_NOT_FOUND ->
        <<"P", "r", "o", "f", "i", "l", "e", " ", "n", "o", "t", " ", "f", "o", "u",
          "n", "d">>
      [] code = ERROR_INVALID_FILE_FORMAT ->
        <<"T", "h", "i", "s", " ", "f", "i", "l", "e", " ", "f", "o", "r", "m", "a",
          "t", " ", "i", "s", " ", "n", "o", "t", " ", "s", "u", "p", "p",
          "o", "r", "t", "e", "d">>
      [] code = ERROR_FILE_SIZE_TOO_LARGE ->
        <<"F", "i", "l", "e", " ", "s", "i", "z", "e", " ", "i", "s", " ", "m", "o",
          "r", "e", " ", "t", "h", "a", "n", " ", "t", "h", "e", " ", "m",
          "a", "x", "i", "m", "u", "m", " ", "s", "i", "z", "e">>
      [] code = ERROR_INVALID_IMAGE_FORMAT ->
        <<"F", "o", "r", " ", "i", "m", "a", "g", "e", "s", ",", " ", "o", "n", "l",
          "y", " ", "J", "P", "G", ",", " ", "J", "P", "E", "G", ",", " ",
          "P", "N", "G", ",", " ", "W", "E", "B", "P", " ", "f", "o", "r",
          "m", "a", "t", "s", " ", "a", "r", "e", " ", "s", "u", "p", "p",
          "o", "r", "t", "e", "d">>
      [] code = ERROR_INVALID_DOCUMENT_FORMAT ->
        <<"F", "o", "r", " ", "d", "o", "c", "u", "m", "e", "n", "t", "s", ",", " ",
          "o", "n", "l", "y", " ", "P", "D", "F", ",", " ", "D", "O", "C",
          ",", " ", "D", "O", "C", "X", ",", " ", "X", "L", "S", ",", " ",
          "X", "L", "S", "X", ",", " ", "P", "P", "T", ",", " ", "P", "P",
          "T", "X", ",", " ", "C", "S", "V", ",", " ", "T", "X", "T", " ",
          "f", "o", "r", "m", "a", "t", "s", " ", "a", "r", "e", " ", "s",
          "u", "p", "p", "o", "r", "t", "e", "d">>
      [] code = ERROR_MASTER_DATA_NOT_FOUND ->
        <<"M", "a", "s", "t", "e", "r", " ", "d", "a", "t", "a", " ", "n", "o", "t",
          " ", "f", "o", "u", "n", "d">>
      [] code = ERROR_CANNOT_DEACTIVATE_REFERENCED_ITEM ->
        <<"C", "a", "n", "n", "o", "t", " ", "s", "e", "t", " ", "a", "s", " ", "i",
          "n", "a", "c", "t", "i", "v", "e", ",", " ", "a", "c", "t", "i",
          "v", "e", " ", "o", "b", "j", "e", "c", "t", "(", "s", ")", " ",
          "r", "e", "f", "e", "r", "e", "n", "c", "e", "s", " ", "t", "h",
          "i", "s", " ", "i", "t", "e", "m">>
      [] code = ERROR_INTERNAL_SERVER ->
        <<"I", "n", "t", "e", "r", "n", "a", "l", " ", "S", "e", "r", "v", "e", "r",
          " ", "e", "r", "r", "o", "r">>
      [] code = ERROR_RATE_LIMIT_EXCEEDED ->
        <<"R", "a", "t", "e", " ", "l", "i", "m", "i", "t", " ", "e", "x", "c", "e",
          "e", "d", "e", "d", ".", " ", "P", "l", "e", "a", "s", "e", " ",
          "t", "r", "y", " ", "a", "g", "a", "i", "n", " ", "l", "a", "t",
          "e", "r">>

---------------------------------------------------------------------------
(* api_responses/responses.py, exception_handler.py                        *)

\* a message code as the caller passes it: an int, or (by mistake) a str
IntCode(n) == [int |-> TRUE, n |-> n, text |-> <<>>]

StrCode(text) == [int |-> FALSE, n |-> 0, text |-> text]

\* an optional object argument (data, errors): None, or the object as its
\* JSON text
Absent == [given |-> FALSE, value |-> <<>>]

Present(value) == [given |-> TRUE, value |-> value]

\* f"Unknown message code: {message_code}"
UnknownMessage(code) ==
    <<"U", "n", "k", "n", "o", "w", "n", " ", "m", "e", "s", "s", "a", "g", "e",
      " ", "c", "o", "d", "e", ":", " ">>
        \o (IF code.int THEN PyStr(code.n) ELSE code.text)

\* faulty variant: an unknown code has no text
get_message_NoPlaceholder(code) ==
    IF code.int /\ code.n \in MessageCodes THEN MESSAGES(code.n) ELSE <<>>

\* get_message(message_code): MESSAGES.get(code, placeholder)
get_message(code) ==
    IF code.int /\ code.n \in MessageCodes THEN MESSAGES(code.n) ELSE UnknownMessage(code)

\* Response(response_data, status=200)
Response(response_data) == [status |-> 200, data |-> response_data]

\* success_response(message_code=SUCCESS_GENERIC, data=None, message=None)
success_response(message_code, data, message) ==
    LET response_data ==
            [response     |-> "success",
             message_code |-> message_code,
             message      |-> IF Truthy(message) THEN message ELSE get_message(message_code)]
    IN  Response(IF data.given THEN [data |-> data.value] @@ response_data
                 ELSE response_data)

\* error_response(message_code=ERROR_GENERIC, errors=None, message=None)
error_response(message_code, errors, message) ==
    LET response_data ==
            [response     |-> "error",
             message_code |-> message_code,
             message      |-> IF Truthy(message) THEN message ELSE get_message(message_code)]
    IN  Response(IF errors.given THEN [errors |-> errors.value] @@ response_data
                 ELSE response_data)

\* validation_error_response(errors, message_code=None)
validation_error_response(errors, message_code) ==
    error_response(IF message_code.given THEN message_code.value
                   ELSE IntCode(ERROR_VALIDATION),
                   errors, None)

\* APIError(message_code, detail=None, errors=None)
APIError(message_code, detail, errors) ==
    [class        |-> "APIError",
     message_code |-> message_code,
     detail       |-> IF Truthy(detail) THEN detail ELSE get_message(message_code),
     errors       |-> errors]

\* every other exception: its class and its text
Exc(class, detail) ==
    [class |-> class, message_code |-> IntCode(0), detail |-> detail, errors |-> Absent]

\* isinstance(exc, classes)
IsInstance(exc, classes) == Bases(exc.class) \cap classes # {}

\* Python truth of an optional object: None, {} and [] are false
TruthyObject(obj) == obj.given /\ obj.value \notin {<<>>, <<"{", "}">>, <<"[", "]">>}

\* faulty variant: an unexpected error is rendered with its own text
custom_exception_handler_LeaksText(exc) ==
    IF IsInstance(exc, {"AuthenticationFailed", "NotAuthenticated", "InvalidToken",
                        "TokenError"})
    THEN error_response(IntCode(ERROR_AUTH_CREDENTIALS_NOT_PROVIDED), Absent, None)
    ELSE IF IsInstance(exc, {"PermissionDenied", "DjangoPermissionDenied"})
    THEN error_response(IntCode(ERROR_PERMISSION_DENIED), Absent, None)
    ELSE error_response(IntCode(ERROR_INTERNAL_SERVER), Absent, exc.detail)

\* custom_exception_handler(exc, context)
custom_exception_handler(exc) ==
    IF IsInstance(exc, {"APIError"})
    THEN error_response(exc.message_code,
                        IF TruthyObject(exc.errors) THEN exc.errors ELSE Absent,
                        exc.detail)
    ELSE IF IsInstance(exc, {"InvalidToken", "TokenError"})
    THEN error_response(IntCode(ERROR_AUTH_CREDENTIALS_NOT_PROVIDED), Absent, None)
    ELSE IF IsInstance(exc, {"AuthenticationFailed", "NotAuthenticated"})
    THEN error_response(IntCode(ERROR_AUTH_CREDENTIALS_NOT_PROVIDED), Absent, None)
    ELSE IF IsInstance(exc, {"PermissionDenied", "DjangoPermissionDenied"})
    THEN error_response(IntCode(ERROR_PERMISSION_DENIED), Absent, None)
    ELSE IF IsInstance(exc, {"Throttled"})
    THEN error_response(IntCode(ERROR_RATE_LIMIT_EXCEEDED), Absent, None)
    ELSE IF IsInstance(exc, {"ValidationError"})
    THEN validation_error_response(Present(exc.detail), Absent)
    ELSE IF IsInstance(exc, {"NotFound", "Http404", "ObjectDoesNotExist"})
    THEN error_response(IntCode(ERROR_INPUT), Absent, None)
    ELSE IF IsInstance(exc, {"APIException"})
    THEN error_response(IntCode(ERROR_INTERNAL_SERVER), Absent, None)
    ELSE error_response(IntCode(ERROR_INTERNAL_SERVER), Absent, None)


---------------------------------------------------------------------------
(* audit/constants.py, audit/models.py, audit/services.py, audit/views.py, *)
(* audit/serializers.py, audit/views_export.py: reading events             *)

USER_UPDATED == <<"u", "s", "e", "r", "_", "u", "p", "d", "a", "t", "e", "d">>

USER == <<"u", "s", "e", "r">>

START_DATE == <<"s", "t", "a", "r", "t", "_", "d", "a", "t", "e">>

END_DATE == <<"e", "n", "d", "_", "d", "a", "t", "e">>

\* ACTION_DESCRIPTIONS, which ACTION_CHOICES repeats: key, description
ActionDescriptions ==
    <<  <<USER_CREATED, <<"U", "s", "e", "r", " ", "C", "r", "e", "a", "t", "e", "d">>>>,
        <<USER_UPDATED, <<"U", "s", "e", "r", " ", "U", "p", "d", "a", "t", "e", "d">>>>,
        <<USER_DELETED, <<"U", "s", "e", "r", " ", "D", "e", "l", "e", "t", "e", "d">>>>  >>

ACTION_CHOICES == ActionDescriptions

MODULE_CHOICES == <<  <<USERS, <<"U", "s", "e", "r", "s">>>>  >>

STATUS_CHOICES ==
    <<  <<SUCCESS, <<"S", "u", "c", "c", "e", "s", "s">>>>,
        <<FAILURE, <<"F", "a", "i", "l", "u", "r", "e">>>>,
        <<WARNING, <<"W", "a", "r", "n", "i", "n", "g">>>>  >>

\* dict.get(key, default) over a list of (key, value) pairs
DictGet(pairs, key, default) ==
    IF \E i \in 1..Len(pairs) : pairs[i][1] = key
    THEN pairs[CHOOSE i \in 1..Len(pairs) : pairs[i][1] = key][2]
    ELSE default

ACTION_DESCRIPTIONS(key, default) == DictGet(ActionDescriptions, key, default)

\* Model.get_FIELD_display(): the label of the stored value, the value itself
\* when the choices do not list it
get_display(choices, value) == DictGet(choices, value, value)

\* the clock reads 09:00:00 on day `tick` of January 2024
DateOf(tick) == [year |-> 2024, month |-> 1, day |-> tick]

\* the decimal digits of n, zero-padded to width
Pad(n, width) ==
    LET s == NatStr(n)
    IN  [i \in 1..(width - Len(s)) |-> "0"] \o s

\* created_at.strftime('%Y-%m-%d %H:%M:%S')
strftime(tick) ==
    LET d == DateOf(tick)
    IN  Pad(d.year, 4) \o <<"-">> \o Pad(d.month, 2) \o <<"-">> \o Pad(d.day, 2)
            \o <<" ", "0", "9", ":", "0", "0", ":", "0", "0">>

IsLeap(year) == (year % 4 = 0 /\ year % 100 # 0) \/ year % 400 = 0

DaysIn(year, month) ==
    CASE month \in {4, 6, 9, 11} -> 30
      [] month = 2 -> IF IsLeap(year) THEN 29 ELSE 28
      [] OTHER -> 31

AllDigits(s) == s # <<>> /\ \A i \in 1..Len(s) : IsDigit(s[i])

\* datetime.strptime(text, '%Y-%m-%d').date(): %Y is four digits, %m is
\* 1[0-2]|0[1-9]|[1-9], %d is 3[0-1]|[1-2]\d|0[1-9]|[1-9]| [1-9], the whole
\* text has to match and the date has to exist; ValueError otherwise
strptime(text) ==
    LET parts == Split(text, "-")
        y     == parts[1]
        m     == parts[2]
        d     == IF Len(parts[3]) = 2 /\ parts[3][1] = " " THEN Tail(parts[3])
                 ELSE parts[3]
        good  == /\ Len(parts) = 3
                 /\ Len(y) = 4 /\ AllDigits(y) /\ DecVal(y) >= 1
                 /\ AllDigits(m) /\ Len(m) <= 2 /\ DecVal(m) \in 1..12
                 /\ AllDigits(d) /\ Len(d) <= 2
                 /\ DecVal(d) \in 1..DaysIn(DecVal(y), DecVal(m))
    IN  IF good
        THEN Returned([year |-> DecVal(y), month |-> DecVal(m), day |-> DecVal(d)])
        ELSE Raised("ValueError")

\* the order of calendar days
DateKey(date) == date.year * 10000 + date.month * 100 + date.day

\* performed_by.full_name of an event, None without an actor
ActorName(event) ==
    IF event.performed_by = NoneInt THEN None ELSE Users[event.performed_by].full_name

\* Meta.ordering = ['-created_at']
RECURSIVE NewestFirst(_)
NewestFirst(rows) ==
    IF rows = <<>> THEN <<>>
    ELSE LET newest == CHOOSE i \in 1..Len(rows) :
                            \A j \in 1..Len(rows) :
                                rows[j].created_at < rows[i].created_at \/ j = i
         IN  <<rows[newest]>>
                \o NewestFirst([k \in 1..(Len(rows) - 1) |->
                                    IF k < newest THEN rows[k] ELSE rows[k + 1]])

\* the user, start_date and end_date filters the list and the export share:
\* each is applied when its value is non-empty and parses
FilterByUser(qs, qp) ==
    LET user_id == QGet(qp, USER, None)
    IN  IF Truthy(user_id) /\ PyInt(user_id).ok
        THEN SelectSeq(qs, LAMBDA event : /\ event.performed_by # NoneInt
                                          /\ event.performed_by = PyInt(user_id).val)
        ELSE qs

FilterFrom(qs, qp) ==
    LET start_date == QGet(qp, START_DATE, None)
    IN  IF Truthy(start_date) /\ strptime(start_date).ok
        THEN SelectSeq(qs, LAMBDA event : DateKey(DateOf(event.created_at))
                                            >= DateKey(strptime(start_date).value))
        ELSE qs

\* faulty variant: the end date itself is left out
FilterUntil_Exclusive(qs, qp) ==
    LET end_date == QGet(qp, END_DATE, None)
    IN  IF Truthy(end_date) /\ strptime(end_date).ok
        THEN SelectSeq(qs, LAMBDA event : DateKey(DateOf(event.created_at))
                                            < DateKey(strptime(end_date).value))
        ELSE qs

FilterUntil(qs, qp) ==
    LET end_date == QGet(qp, END_DATE, None)
    IN  IF Truthy(end_date) /\ strptime(end_date).ok
        THEN SelectSeq(qs, LAMBDA event : DateKey(DateOf(event.created_at))
                                            <= DateKey(strptime(end_date).value))
        ELSE qs

\* services.apply_audit_log_filters(request, queryset)
apply_audit_log_filters(qp, qs) ==
    LET search   == QGet(qp, SEARCH, None)
        searched ==
            IF Truthy(search)
            THEN SelectSeq(qs, LAMBDA event :
                    \/ IContains(event.action, search)
                    \/ (ActorName(event) # None /\ IContains(ActorName(event), search)))
            ELSE qs
    IN  FilterUntil(FilterFrom(FilterByUser(searched, qp), qp), qp)

\* AuditLogList._apply_filters(request, queryset)
AuditLogList_apply_filters(qp, qs) ==
    LET raw      == QGet(qp, SEARCH, None)
        search   == IF Truthy(raw) THEN Strip(raw) ELSE raw
        Described(event) ==
            \E i \in 1..Len(ActionDescriptions) :
                /\ IContains(ActionDescriptions[i][2], search)
                /\ event.action = ActionDescriptions[i][1]
        searched ==
            IF Truthy(search)
            THEN SelectSeq(qs, LAMBDA event :
                    \/ IContains(event.action, search)
                    \/ IContains(event.action_details, search)
                    \/ Described(event))
            ELSE qs
    IN  FilterUntil(FilterFrom(FilterByUser(searched, qp), qp), qp)


\* AuditLogSerializer(page, many=True).data: the class declares the field
\* `project` and leaves it out of Meta.fields (and has no get_project), so
\* building the fields of the child serializer fails an assertion of the
\* framework; an empty page never builds them
AuditLogSerializer(page) ==
    IF page = <<>> THEN Returned(<<>>) ELSE Raised("AssertionError")

\* AuditLogList.get(request) over the audit_logs table
AuditLogList_get(table, qp) ==
    LET Respond(pagination_result, serializer) ==
            IF ~serializer.ok THEN serializer
            ELSE Returned(success_response(
                    IntCode(SUCCESS_AUDIT_LOGS_RETRIEVED),
                    Present([audit_logs |-> serializer.value,
                             total      |-> pagination_result.total,
                             next       |-> pagination_result.next,
                             previous   |-> pagination_result.previous]),
                    None))
        Serialize(pagination_result) ==
            Respond(pagination_result, AuditLogSerializer(pagination_result.data))
    IN  Serialize(apply_manual_pagination(
                    AuditLogList_apply_filters(qp, NewestFirst(objects(table))), qp))

\* BaseMasterListCreateView.get(request), after get_queryset, apply_filters
\* and order_by have produced `ordered`; serializer_class is the subclass's
\* ModelSerializer, which renders each record by its fields
BaseMasterListCreateView_get(ordered, qp, list_success_code) ==
    LET Respond(paginated_result, message_code) ==
            Response([response     |-> "success",
                      message_code |-> IntCode(message_code),
                      message      |-> get_message(IntCode(message_code)),
                      data         |-> paginated_result.data,
                      total        |-> paginated_result.total,
                      next         |-> paginated_result.next,
                      previous     |-> paginated_result.previous])
        Coded(paginated_result) ==
            Respond(paginated_result,
                    IF paginated_result.total = 0 THEN SUCCESS_NO_DATA_FOUND
                    ELSE list_success_code)
    IN  Coded(apply_manual_pagination(ordered, qp))

\* APIView.dispatch: an exception that leaves the view is rendered by the
\* configured EXCEPTION_HANDLER
Dispatch(outcome) ==
    IF outcome.ok THEN outcome.value
    ELSE custom_exception_handler(Exc(outcome.value, <<>>))

\* the bare value of x or ''
OrEmpty(x) == IF Truthy(x) THEN x ELSE <<>>

\* format_audit_log_for_csv(audit_log); the writer renders the integer of
\* the last cell with str()
format_audit_log_for_csv(event) ==
    <<  strftime(event.created_at),
        ACTION_DESCRIPTIONS(event.action, get_display(ACTION_CHOICES, event.action)),
        OrEmpty(event.action_details),
        OrEmpty(event.performed_by_role),
        IF event.performed_by # NoneInt THEN ActorName(event) ELSE <<>>,
        get_display(MODULE_CHOICES, event.module),
        get_display(STATUS_CHOICES, event.status),
        IF event.related_object_id = NoneInt \/ event.related_object_id = 0
        THEN <<>>
        ELSE PyStr(event.related_object_id)  >>

\* the header row of the export
Headers ==
    <<  <<"T", "i", "m", "e", "s", "t", "a", "m", "p">>,
        <<"A", "c", "t", "i", "o", "n">>,
        <<"A", "c", "t", "i", "o", "n", " ", "D", "e", "t", "a", "i", "l",
          "s">>,
        <<"U", "s", "e", "r", " ", "R", "o", "l", "e">>,
        <<"U", "s", "e", "r", " ", "F", "u", "l", "l", " ", "N", "a", "m",
          "e">>,
        <<"M", "o", "d", "u", "l", "e">>,
        <<"S", "t", "a", "t", "u", "s">>,
        <<"O", "b", "j", "e", "c", "t", " ", "I", "D">>  >>

\* csv.writer of the excel dialect, QUOTE_MINIMAL: a field holding the
\* delimiter, the quote character, CR or LF is quoted, its quotes doubled
NeedsQuote(field) == \E i \in 1..Len(field) : field[i] \in {",", "\"", "\r", "\n"}

RECURSIVE DoubleQuotes(_)
DoubleQuotes(s) ==
    IF s = <<>> THEN <<>>
    ELSE (IF Head(s) = "\"" THEN <<"\"", "\"">> ELSE <<Head(s)>>) \o DoubleQuotes(Tail(s))

CsvField(field) ==
    IF NeedsQuote(field) THEN <<"\"">> \o DoubleQuotes(field) \o <<"\"">> ELSE field

\* faulty variant: the fields are joined as they are
writerow_NoQuoting(row) == Join(row, <<",">>) \o <<"\r", "\n">>

\* writer.writerow(row): the fields joined by commas, ended by CRLF
writerow(row) ==
    Join([i \in 1..Len(row) |-> CsvField(row[i])], <<",">>) \o <<"\r", "\n">>

RECURSIVE WriteRows(_)
WriteRows(qs) ==
    IF qs = <<>> THEN <<>>
    ELSE writerow(format_audit_log_for_csv(Head(qs))) \o WriteRows(Tail(qs))

\* generate_csv_response(queryset): the header row, then a row per event
generate_csv_response(qs) ==
    [status       |-> 200,
     content_type |-> "text/csv",
     content      |-> writerow(Headers) \o WriteRows(qs)]

\* get_audit_logs_for_export()
get_audit_logs_for_export(table) == NewestFirst(objects(table))

\* AuditLogCSVExportView.get(request)
AuditLogCSVExportView_get(table, qp) ==
    generate_csv_response(apply_audit_log_filters(qp, get_audit_logs_for_export(table)))


---------------------------------------------------------------------------
(* permissions.py, base_master_views.py: the permission check of a view    *)

VIEW_MASTER_DATA == "master_data.can_view_master_data"

MANAGE_MASTER_DATA == "master_data.can_manage_master_data"

VIEW_AUDIT_LOGS == "users.can_view_audit_logs"

\* request.user is None
NoUser ==
    [present |-> FALSE, is_authenticated |-> FALSE, is_active |-> FALSE,
     is_superuser |-> FALSE, permissions |-> {}]

\* AnonymousUser
AnonymousUser == [NoUser EXCEPT !.present = TRUE]

\* PermissionsMixin.has_perm(perm): an active superuser has every permission,
\* an inactive user none, any other user those granted to it or its groups
has_perm(user, perm) ==
    user.is_active /\ (user.is_superuser \/ perm \in user.permissions)

\* getattr(view, 'required_permissions', []): BaseMasterListCreateView
\* computes the list from the HTTP method, other views declare it
required_permissions(view) ==
    IF view.master
    THEN CASE view.method = "GET"  -> view.view_permissions
           [] view.method = "POST" -> view.manage_permissions
           [] OTHER                -> <<>>
    ELSE view.required_permissions

\* faulty variant: the list required_permissions_any is not consulted
has_permission_AllOnly(user, view) ==
    IF ~user.present \/ ~user.is_authenticated THEN FALSE
    ELSE IF required_permissions(view) = <<>> /\ view.required_permissions_any = <<>>
    THEN TRUE
    ELSE \A i \in 1..Len(required_permissions(view)) :
            has_perm(user, required_permissions(view)[i])

\* HasRequiredPermissions.has_permission(request, view)
has_permission(user, view) ==
    IF ~user.present \/ ~user.is_authenticated THEN FALSE
    ELSE IF required_permissions(view) = <<>> /\ view.required_permissions_any = <<>>
    THEN TRUE
    ELSE IF /\ required_permissions(view) # <<>>
            /\ ~\A i \in 1..Len(required_permissions(view)) :
                    has_perm(user, required_permissions(view)[i])
    THEN FALSE
    ELSE IF /\ view.required_permissions_any # <<>>
            /\ ~\E i \in 1..Len(view.required_permissions_any) :
                    has_perm(user, view.required_permissions_any[i])
    THEN FALSE
    ELSE TRUE


---------------------------------------------------------------------------
(* users/models.py, common/models.py, audit/models.py: removing a user     *)

\* the users table: the stored users, none deleted
StoredUsers ==
    [rows    |-> [i \in 1..Len(Users) |-> Users[i] @@ [deleted_at |-> NoneInt]],
     last_id |-> Len(Users)]

\* on_delete=models.SET_NULL of AuditLog.performed_by: when the row of the
\* user is deleted, every event that references it loses the reference
SET_NULL(table, user) ==
    [table EXCEPT !.rows =
        [i \in 1..Len(table.rows) |->
            IF table.rows[i].performed_by = user
            THEN [table.rows[i] EXCEPT !.performed_by = NoneInt]
            ELSE table.rows[i]]]

\* user.delete(): User(AbstractBaseUser, PermissionsMixin, BaseModel) takes
\* delete from BaseModel, which sets deleted_at and saves that column; no
\* row is deleted, so no on_delete handler runs
user_delete(utable, events, user) ==
    [users |-> instance_delete(utable, user), events |-> events]

\* user.restore()
user_restore(utable, events, user) ==
    [users |-> instance_restore(utable, user), events |-> events]

\* user.hard_delete(): models.Model.delete, which deletes the row and runs
\* the on_delete handlers of the foreign keys that point at it
user_hard_delete(utable, events, user) ==
    [users |-> instance_hard_delete(utable, user), events |-> SET_NULL(events, user)]


---------------------------------------------------------------------------
(* pagination.py: StandardPagination, the default pagination class        *)

\* StandardPagination.page_size, max_page_size and last_page_strings
page_size == 10

max_page_size == 100

LAST == <<"l", "a", "s", "t">>

\* StandardPagination.get_page_size(request)
get_page_size(qp) ==
    LET raw == QGet(qp, LIMIT, None)
    IN  IF raw # None /\ raw # <<>> /\ PyInt(raw).ok
        THEN Min(PyInt(raw).val, max_page_size)
        ELSE page_size

\* StandardPagination.get_page_number(request, paginator)
get_page_number(qp, num_pages) ==
    LET page_number == QGet(qp, PAGE, None)
    IN  IF page_number = None THEN 1
        ELSE IF page_number = LAST THEN num_pages
        ELSE IF PyInt(page_number).ok THEN PyInt(page_number).val
        ELSE 1

\* Paginator.num_pages: ceil(max(1, count) / per_page), also for the
\* negative per_page that get_page_size lets through
PaginatorNumPages(count, per_page) ==
    IF per_page > 0 THEN NumPages(count, per_page)
    ELSE 0 - (Max(1, count) \div (0 - per_page))

\* StandardPagination._get_link_for_page(page_number): the page is set, the
\* limit only when the request carries none
get_link_for_page(qp, page_number) ==
    LET q1 == QSetItem(qp, PAGE, PyStr(page_number))
        q2 == IF QHas(q1, LIMIT) THEN q1
              ELSE QSetItem(q1, LIMIT, PyStr(get_page_size(qp)))
    IN  BaseUrl \o <<"?">> \o UrlEncode(q2)

\* PageNumberPagination.paginate_queryset with the overrides of
\* StandardPagination, and the values get_paginated_response reports.  A page
\* size of 0 switches pagination off; a number Paginator.page refuses is
\* answered with NotFound; a negative page size makes the slice of the first
\* page fail, with the exception class depending on the Django release.
paginate_queryset(qs, qp) ==
    LET size      == get_page_size(qp)
        count     == Len(qs)
        num_pages == IF size = 0 THEN 0 ELSE PaginatorNumPages(count, size)
        number    == get_page_number(qp, num_pages)
        valid     == number >= 1 /\ (number <= num_pages \/ number = 1)
    IN  IF size = 0
        THEN {Returned([paginated |-> FALSE, results |-> qs, total |-> count,
                        next |-> None, previous |-> None])}
        ELSE IF ~valid THEN {Raised("NotFound")}
        ELSE IF size < 0 THEN {Raised("ValueError"), Raised("AssertionError")}
        ELSE {Returned([paginated |-> TRUE,
                        results   |-> PageObjects(qs, number, size),
                        total     |-> count,
                        next      |-> IF number < num_pages
                                      THEN get_link_for_page(qp, number + 1)
                                      ELSE None,
                        previous  |-> IF number > 1
                                      THEN get_link_for_page(qp, number - 1)
                                      ELSE None])}


---------------------------------------------------------------------------
(* base_master_views.py, utils/media.py: creating and updating master data *)

\* an exception raised with a message code
RaisedCode(cls, code) == [ok |-> FALSE, value |-> cls, code |-> code]

\* file_fields and file_validation of the view
file_fields == <<"logo", "document">>

\* save_uploaded_file(uploaded_file, folder): the file is written to
\* default_storage under a fresh name; the path is returned
FreshPath(files) == <<"m", "/">> \o PyStr(Cardinality(files) + 1)

\* the data of the request: the value of its 'data' key, parsed with
\* json.loads when it is a string, or the request data itself
ParseData(request) ==
    IF request.form = "bad_json" THEN RaisedCode("APIError", ERROR_INPUT)
    ELSE Returned([name |-> request.name, status |-> request.status])

\* _validate_uploaded_file by validation type: image for logo, document for
\* document
validate_uploaded_file(file, field_name) ==
    IF file = "invalid"
    THEN RaisedCode("APIError", IF field_name = "logo" THEN ERROR_INVALID_IMAGE_FORMAT
                                ELSE ERROR_INVALID_DOCUMENT_FORMAT)
    ELSE Returned(file)

\* one turn of the loop of handle_file_uploads over file_fields; `validate`
\* tells whether the view validates before it saves
UploadTurn(acc, request, field_name, validate) ==
    IF ~acc.outcome.ok \/ request[field_name] = "none" THEN acc
    ELSE IF validate /\ ~validate_uploaded_file(request[field_name], field_name).ok
    THEN [acc EXCEPT !.outcome = validate_uploaded_file(request[field_name], field_name)]
    ELSE [outcome   |-> acc.outcome,
          files     |-> acc.files \cup {FreshPath(acc.files)},
          file_data |-> [acc.file_data EXCEPT ![field_name] = FreshPath(acc.files)]]

\* handle_file_uploads(request): the paths by field, and the storage after it
UploadLoop(request, files, validate) ==
    UploadTurn(UploadTurn([outcome |-> Returned(<<>>), files |-> files,
                           file_data |-> [logo |-> None, document |-> None]],
                          request, file_fields[1], validate),
               request, file_fields[2], validate)

\* BaseMasterListCreateView.handle_file_uploads validates each file
ListCreate_handle_file_uploads(request, files) == UploadLoop(request, files, TRUE)

\* BaseMasterDetailView.handle_file_uploads saves without validating
Detail_handle_file_uploads(request, files) == UploadLoop(request, files, FALSE)

\* serializer.is_valid(): the name is required and may not be blank; an
\* update is partial, so the name may be left out
is_valid(data, partial) ==
    IF data.name = None THEN partial ELSE Strip(data.name) # <<>>

\* the value a key of the request gives a column, the current one when the
\* request does not carry the key
Updated(current, value) == IF value = None THEN current ELSE value

\* serializer.save() of a new record
SaveNew(table, data, file_data) ==
    [rows    |-> Append(table.rows,
                        [id |-> table.last_id + 1, name |-> data.name,
                         status |-> Updated(ACTIVE, data.status),
                         is_active |-> TRUE, level |-> 0,
                         created_at |-> Now(table), updated_at |-> Now(table),
                         deleted_at |-> NoneInt,
                         logo |-> Updated(<<>>, file_data.logo),
                         document |-> Updated(<<>>, file_data.document)]),
     last_id |-> table.last_id + 1]

\* serializer.save() of a stored record
SaveStored(table, id, data, file_data) ==
    [table EXCEPT !.rows =
        [i \in 1..Len(table.rows) |->
            IF table.rows[i].id # id THEN table.rows[i]
            ELSE [table.rows[i] EXCEPT
                    !.name = Updated(@, data.name),
                    !.status = Updated(@, data.status),
                    !.updated_at = Now(table),
                    !.logo = Updated(@, file_data.logo),
                    !.document = Updated(@, file_data.document)]]]

\* what a handler leaves behind: its outcome, the table and the storage
Left(outcome, table, files) == [result |-> outcome, table |-> table, files |-> files]

\* the tail of post and put: the serializer is validated and saved
Serialize(request, table, uploaded, data, saved) ==
    IF ~uploaded.outcome.ok THEN Left(uploaded.outcome, table, uploaded.files)
    ELSE IF ~is_valid(data, request.method = "PUT")
    THEN Left(RaisedCode("ValidationError", ERROR_VALIDATION), table, uploaded.files)
    ELSE Left(Returned(data), saved, uploaded.files)

\* BaseMasterListCreateView.post(request)
post(request, table, files) ==
    IF ~ParseData(request).ok THEN Left(ParseData(request), table, files)
    ELSE Serialize(request, table, ListCreate_handle_file_uploads(request, files),
                   ParseData(request).value,
                   SaveNew(table, ParseData(request).value,
                           ListCreate_handle_file_uploads(request, files).file_data))

\* BaseMasterDetailView.get_object(id)
get_object(table, id) ==
    IF id \in Ids(objects(table))
    THEN Returned(objects(table)[CHOOSE i \in 1..Len(objects(table)) :
                                    objects(table)[i].id = id])
    ELSE RaisedCode("APIError", ERROR_MASTER_DATA_NOT_FOUND)

\* BaseMasterDetailView.put(request, id); request.referenced tells whether
\* has_active_references finds an operational object that references the record
put(request, table, files) ==
    IF ~get_object(table, request.id).ok THEN Left(get_object(table, request.id), table, files)
    ELSE IF ~ParseData(request).ok THEN Left(ParseData(request), table, files)
    ELSE IF /\ get_object(table, request.id).value.status = ACTIVE
            /\ ParseData(request).value.status = INACTIVE
            /\ request.referenced
    THEN Left(RaisedCode("APIError", ERROR_CANNOT_DEACTIVATE_REFERENCED_ITEM), table, files)
    ELSE Serialize(request, table, Detail_handle_file_uploads(request, files),
                   ParseData(request).value,
                   SaveStored(table, request.id, ParseData(request).value,
                              Detail_handle_file_uploads(request, files).file_data))

---------------------------------------------------------------------------
(* Inputs: stored records and request parameters                           *)

\* stored records read through the list endpoints
NumRecords == 4

Names ==
    <<  <<"A", "b">>, <<"a", " ", "b">>, <<"B">>, <<" ", "b", "a">>, <<"c", "A", "B">>  >>

\* the record stored under id i
Rec(i) ==
    [id        |-> i,
     name      |-> Names[(i % 5) + 1],
     status    |-> ValidChoices(STATUS)[(i % 3) + 1],
     is_active |-> (i % 2 = 0),
     level     |-> i % 4,
     created_at |-> i]

\* the n newest records, newest first (the view's default ordering)
Newest(n) == [i \in 1..n |-> Rec(n + 1 - i)]

RECURSIVE SetToSeq(_)
SetToSeq(S) ==
    IF S = {} THEN <<>>
    ELSE LET m == CHOOSE x \in S : \A y \in S : x >= y
         IN  <<Rec(m)>> \o SetToSeq(S \ {m})

\* raw values of the page parameter: each a list of the values the key has
PageChoices ==
    {   <<>>, << <<>> >>, << <<"x">> >>, << <<"-", "1">> >>, << <<"0">> >>,
        << <<"1">> >>, << <<"2">> >>, << <<"3">> >>, << <<"7">> >>,
        << <<" ", "2", " ">> >>, << <<"+", "3">> >>, << <<"1", ".", "5">> >>,
        << <<"1", "_", "0">> >>, << <<"3", "0">> >>, << <<"2">>, <<"3">> >>  }

LimitChoices ==
    {   <<>>, << <<>> >>, << <<"x">> >>, << <<"-", "5">> >>, << <<"0">> >>,
        << <<"1">> >>, << <<"5">> >>, << <<"1", "0">> >>, << <<"1", "0", "0">> >>,
        << <<"1", "0", "1">> >>, << <<"2", "5", "0">> >>, << <<" ", "7">> >>,
        << <<"2", ".", "5">> >>, << <<"5">>, <<"3">> >>  }

\* the other parameters a paginated request carries
ExtraChoices ==
    {   <<>>,
        << [key |-> STATUS, vals |-> <<ACTIVE, INACTIVE>>] >>,
        << [key |-> SEARCH, vals |-> << <<"a", " ", "&", "b", "=", "+">> >>],
           [key |-> <<"s", "o", "r", "t", "_", "b", "y">>, vals |-> << <<"-", "n", "a", "m", "e">> >>] >>  }

Entry(key, vals) == IF vals = <<>> THEN <<>> ELSE <<[key |-> key, vals |-> vals]>>

SearchChoices ==
    {   <<>>, << <<>> >>, << <<" ">> >>, << <<" ", " ">> >>, << <<"a">> >>,
        << <<" ", "A", " ">> >>, << <<"a", "b">> >>, << <<"a", " ", "b">> >>,
        << <<"B", "A">> >>, << <<"a", "c", "t">> >>, << <<"z">> >>,
        << <<"z">>, <<"b", " ">> >>  }

SearchFieldChoices == {<<>>, <<NAME>>, <<NAME, STATUS>>}

StatusChoices ==
    {   <<>>, <<ACTIVE>>, <<ACTIVE, INACTIVE>>, << <<" ">> \o ACTIVE \o <<" ">> >>,
        << <<"b", "o", "g", "u", "s">> >>, <<ACTIVE, <<"b", "o", "g", "u", "s">> >>,
        << <<>> >>, << <<>>, PENDING, <<" ">> >>, <<INACTIVE, PENDING, INACTIVE>>  }

BoolChoices ==
    {   <<>>, << <<"t", "r", "u", "e">> >>, << <<"T", "R", "U", "E">>, <<"0">> >>,
        << <<"y", "e", "s">> >>, << <<"1">>, <<"m", "a", "y", "b", "e">> >>,
        << <<" ", "F", "a", "l", "s", "e">> >>  }

LevelChoices ==
    {   <<>>, << <<"2">> >>, << <<"1">>, <<"2">> >>, << <<"x">> >>,
        << <<"1">>, <<"x">> >>  }

FilterFieldChoices ==
    {<<>>, <<STATUS>>, <<IS_ACTIVE>>, <<STATUS, IS_ACTIVE, LEVEL>>,
     <<NOFIELD, LEVEL, STATUS>>}

\* raw values of the sort_by parameter
SortByChoices ==
    {   <<>>, << <<>> >>, << <<"-">> >>, <<CREATED_AT>>, << <<"-">> \o CREATED_AT >>,
        << <<"-", "-">> \o CREATED_AT >>, <<LEVEL>>, << <<"-">> \o LEVEL >>,
        << <<"-", "-", "-">> \o LEVEL >>, <<STATUS>>, <<NAME>>,
        << <<"n", "o", "n", "e", "x", "i", "s", "t", "e", "n", "t", "_", "f", "i", "e", "l", "d">> >>,
        <<LEVEL, <<"-">> \o CREATED_AT>>  }

\* allow-lists of sort fields an endpoint declares
SortFieldChoices == {<<>>, <<CREATED_AT>>, <<CREATED_AT, LEVEL, STATUS>>}

\* default sort keys an endpoint declares
DefaultSortChoices == {<<"-">> \o CREATED_AT, LEVEL}

\* a log_audit_event call: action and module, every optional argument left out
BareCall(action) ==
    [action |-> action, module |-> USERS, user |-> NoneInt, user_role |-> NOT_GIVEN,
     status |-> NOT_GIVEN, action_details |-> NOT_GIVEN, from_status |-> NOT_GIVEN,
     to_status |-> NOT_GIVEN, changed_fields |-> NOT_GIVEN,
     related_object_id |-> NoneInt]

\* a call with every optional argument but the actor supplied
FullCall ==
    [BareCall(ORDER_PLACED) EXCEPT
        !.user_role = MANAGER, !.status = FAILURE,
        !.action_details = <<"a", ",", "b">>,
        !.from_status = <<"o", "p", "e", "n">>, !.to_status = <<"d", "o", "n", "e">>,
        !.changed_fields = <<"{", "e", "m", "a", "i", "l", ":", "x", "}">>,
        !.related_object_id = 7]

\* details that hold a quote character and a line break
QuotedDetails ==
    <<"x", " ", "\"", "y", "\"", "\n", "z">>

\* the calls use-case code makes
CallChoices ==
    {   BareCall(USER_CREATED),
        [BareCall(USER_CREATED) EXCEPT !.user = 1],
        [BareCall(USER_CREATED) EXCEPT !.user = 2],
        [BareCall(USER_CREATED) EXCEPT !.user = 1, !.user_role = MANAGER],
        [BareCall(USER_CREATED) EXCEPT !.user = 1, !.user_role = <<>>],
        [BareCall(USER_CREATED) EXCEPT !.user_role = <<>>],
        [BareCall(USER_DELETED) EXCEPT !.user = 2, !.user_role = MANAGER,
                                       !.related_object_id = 3],
        [BareCall(USER_UPDATED) EXCEPT !.user = 1, !.action_details = QuotedDetails],
        FullCall  }

\* a project-specific success code and error code MESSAGES has no text for
UnlistedSuccessCode == 1500

UnlistedErrorCode == 2999

\* payloads (data, errors) as JSON texts; [] is the empty list
Payloads == {<<"[", "]">>, <<"{", "i", "d", ":", "1", "}">>}

\* message overrides: none, empty, a text
MessageChoices == {None, <<>>, <<"D", "o", "n", "e">>}

\* the success_response calls of the views
SuccessCalls ==
    {[fn |-> "success_response", message_code |-> IntCode(code), object |-> obj,
      message |-> msg] :
        code \in {SUCCESS_GENERIC, SUCCESS_USER_LOGIN, SUCCESS_LOGOUT,
                  SUCCESS_AUDIT_LOGS_RETRIEVED, SUCCESS_NO_DATA_FOUND,
                  UnlistedSuccessCode},
        obj \in {Absent} \cup {Present(v) : v \in Payloads},
        msg \in MessageChoices}

\* the error_response calls (through StandardResponseMixin)
ErrorCalls ==
    {[fn |-> "error_response", message_code |-> IntCode(code), object |-> obj,
      message |-> msg] :
        code \in {ERROR_GENERIC, ERROR_VALIDATION, ERROR_USER_NOT_FOUND,
                  ERROR_INTERNAL_SERVER, UnlistedErrorCode},
        obj \in {Absent} \cup {Present(v) : v \in Payloads},
        msg \in MessageChoices}

\* the APIError raises of the use-case code: the registration serializer,
\* the login service, parse_positive_int, the master detail view
RaisedAPIErrors ==
    {   APIError(IntCode(ERROR_USER_EMAIL_EXISTS), None, Absent),
        APIError(StrCode(VALIDATION_FULL_NAME_NUMERIC), None, Absent),
        APIError(StrCode(VALIDATION_CONTACT_NUMBER_INVALID), None, Absent),
        APIError(IntCode(ERROR_INVALID_CREDENTIALS), None, Absent),
        APIError(IntCode(ERROR_INPUT), <<"I", "n", "v", "a", "l", "i", "d", " ", "i", "d">>, Absent),
        APIError(IntCode(ERROR_MASTER_DATA_NOT_FOUND), None, Absent),
        APIError(IntCode(ERROR_INPUT), None, Present(<<"{", "i", "d", ":", "1", "}">>)),
        APIError(IntCode(ERROR_INPUT), None, Present(<<"{", "}">>))  }

\* texts exceptions carry
ExcTexts ==
    {   <<"n", "o", " ", "s", "u", "c", "h", " ", "t", "a", "b", "l", "e", ":", " ",
          "u", "s", "e", "r", "s", "_", "u", "s", "e", "r">>,
        <<"t", "o", "k", "e", "n", "=", "e", "y", "J", "0", " ", "p", "w", "=", "s",
          "3", "c", "r", "e", "t">>  }

\* the exceptions that reach the handler
ExceptionChoices ==
    RaisedAPIErrors
        \cup {Exc(class, text) :
                class \in {"InvalidToken", "TokenError", "AuthenticationFailed",
                           "NotAuthenticated", "PermissionDenied",
                           "DjangoPermissionDenied", "Throttled", "ValidationError",
                           "NotFound", "Http404", "DoesNotExist", "MethodNotAllowed",
                           "ValueError", "IntegrityError", "KeyError"},
                text \in ExcTexts}


\* a query string of one parameter
Q1(key, value) == <<[key |-> key, vals |-> <<value>>]>>

\* the query strings of the audit read side
AuditQueryChoices ==
    {   <<>>,
        Q1(SEARCH, <<"c", "r", "e", "a", "t", "e", "d">>),
        Q1(SEARCH, <<"P", "L", "A", "C", "E", "D">>),
        Q1(SEARCH, <<" ", "A", "n", "n", " ">>),
        Q1(SEARCH, <<"z", "z", "z">>),
        Q1(USER, <<"1">>),
        Q1(USER, <<"x">>) \o Q1(SEARCH, <<"u", "s", "e", "r">>),
        Q1(USER, <<"2">>) \o Q1(START_DATE, <<"2", "0", "2", "4", "-", "0", "1", "-", "0", "2">>),
        Q1(START_DATE, <<"2", "0", "2", "4", "-", "1", "-", "2">>),
        Q1(END_DATE, <<"2", "0", "2", "4", "-", "0", "1", "-", "0", "1">>),
        Q1(START_DATE, <<"2", "0", "2", "4", "-", "0", "2", "-", "3", "0">>)
            \o Q1(END_DATE, <<"2", "0", "2", "4", "-", "0", "1", "-", "0", "2">>),
        Q1(LIMIT, <<"1">>),
        Q1(PAGE, <<"2">>) \o Q1(LIMIT, <<"1">>),
        Q1(SEARCH, <<"U", "s", "e", "r", " ", "C">>),
        Q1(SEARCH, <<"y">>),
        Q1(SEARCH, <<"a", "n", "n">>) \o Q1(USER, <<"1">>),
        Q1(USER, <<"x">>) \o Q1(END_DATE, <<"2", "0", "2", "4", "-", "0", "1", "-", "0", "1">>),
        Q1(START_DATE, <<"2", "0", "2", "4", "-", "0", "1", "-", "0", "2">>)
            \o Q1(END_DATE, <<"2", "0", "2", "4", "-", "0", "1", "-", "0", "2">>),
        Q1(START_DATE, <<"2", "0", "2", "4", "-", "1", "3", "-", "0", "1">>)
            \o Q1(END_DATE, <<"2", "0", "2", "4", "-", "0", "1", "-", "0", "1">>)  }

\* the query strings of a master-data list request
MasterQueryChoices ==
    {   <<>>,
        Q1(LIMIT, <<"1">>),
        Q1(PAGE, <<"2">>) \o Q1(LIMIT, <<"1">>),
        Q1(SEARCH, <<"a">>) \o Q1(LIMIT, <<"2">>),
        Q1(STATUS, ACTIVE) \o Q1(PAGE, <<"9">>),
        Q1(LEVEL, <<"x">>)  }

\* list_success_code of the subclasses
ListSuccessCodes == {SUCCESS_GENERIC, SUCCESS_USERS_RETRIEVED}


AllPermissions == {VIEW_MASTER_DATA, MANAGE_MASTER_DATA, VIEW_AUDIT_LOGS}

\* the users a request can carry
RequestUsers ==
    {NoUser, AnonymousUser}
        \cup {[present |-> TRUE, is_authenticated |-> TRUE, is_active |-> active,
               is_superuser |-> super, permissions |-> perms] :
                active \in BOOLEAN, super \in BOOLEAN, perms \in SUBSET AllPermissions}

PermissionLists ==
    {<<>>, <<VIEW_AUDIT_LOGS>>, <<VIEW_MASTER_DATA, MANAGE_MASTER_DATA>>,
     <<MANAGE_MASTER_DATA, VIEW_AUDIT_LOGS>>}

\* views that declare their lists, and master-data views under each method
ViewChoices ==
    {[master |-> FALSE, method |-> "GET", view_permissions |-> <<>>,
      manage_permissions |-> <<>>, required_permissions |-> all,
      required_permissions_any |-> any] :
        all \in PermissionLists, any \in PermissionLists}
    \cup {[master |-> TRUE, method |-> method, view_permissions |-> <<VIEW_MASTER_DATA>>,
           manage_permissions |-> <<MANAGE_MASTER_DATA>>, required_permissions |-> <<>>,
           required_permissions_any |-> <<>>] :
            method \in {"GET", "POST", "OPTIONS"}}


\* page and limit values of a request served while the table changes
DriftPageChoices == {<<>>, << <<"1">> >>, << <<"2">> >>, << <<"9">> >>}

DriftLimitChoices == {<<>>, << <<"1">> >>, << <<"2">> >>}


\* a stored record of a model derived from BaseModel; logo and document are
\* the paths of its files, empty when it has none
MasterRecord(i) ==
    Rec(i) @@ [updated_at |-> i, deleted_at |-> NoneInt, logo |-> <<>>,
               document |-> <<>>]

\* the table of that model before any request
MasterRows ==
    [rows |-> [i \in 1..NumRecords |-> MasterRecord(i)], last_id |-> NumRecords]


\* the files the storage may hold before requests are no longer taken
MaxFiles == 1

\* the uploads of a field: none, a file that passes validation, one that fails
UploadChoices == {"none", "valid", "invalid"}

\* create and update requests: the form of the data (a dict under 'data', the
\* request data itself, a JSON string, a string that is no JSON), the name
\* and status it carries, the uploads, and whether the target is referenced
WriteRequests ==
    [method : {"POST"}, id : {0}, form : {"dict", "plain", "json", "bad_json"},
     name : {None, <<>>, <<"N">>}, status : {None, INACTIVE},
     logo : UploadChoices, document : UploadChoices, referenced : {FALSE}]
    \cup
    [method : {"PUT"}, id : {3, NumRecords + 1}, form : {"dict", "plain", "json", "bad_json"},
     name : {None, <<>>, <<"N">>}, status : {None, INACTIVE},
     logo : UploadChoices, document : UploadChoices, referenced : BOOLEAN]

---------------------------------------------------------------------------
(* The request handlers                                                    *)

NoResult == [ok |-> TRUE, value |-> <<>>]

NoParams == [should_paginate |-> FALSE, page |-> 0, limit |-> 0]

\* the audit_logs table before any event is recorded
EmptyTable == [rows |-> <<>>, last_id |-> 0]

\* no call is under way
NoCall == <<>>

Init ==
    /\ pc = "idle"
    /\ queryset = <<>>
    /\ query_params = <<>>
    /\ search_fields = <<>>
    /\ filter_fields = <<>>
    /\ pagination_params = NoParams
    /\ sort_fields = <<>>
    /\ default_sort = <<>>
    /\ audit_log = EmptyTable
    /\ call_args = NoCall
    /\ result = NoResult
    /\ user_table = StoredUsers
    /\ media = {}
    /\ master_table = MasterRows

\* a list request arrives: page and limit values, other parameters between them
ListRequest ==
    /\ UNCHANGED <<user_table, media, master_table>>
    /\ pc = "idle"
    /\ UNCHANGED <<sort_fields, default_sort, audit_log, call_args>>
    /\ \E n \in 0..MaxRecords, pv \in PageChoices, lv \in LimitChoices, ex \in ExtraChoices :
        /\ queryset' = Newest(n)
        /\ query_params' = Entry(PAGE, pv) \o ex \o Entry(LIMIT, lv)
    /\ pc' = "request"
    /\ UNCHANGED <<search_fields, filter_fields, pagination_params, result>>

\* apply_manual_pagination(queryset, request)
Paginate ==
    /\ UNCHANGED <<user_table, media, master_table>>
    /\ pc = "request"
    /\ UNCHANGED <<sort_fields, default_sort, audit_log, call_args>>
    /\ pagination_params' = get_pagination_params(query_params)
    /\ result' = [ok |-> TRUE, value |-> apply_manual_pagination(queryset, query_params)]
    /\ pc' = "paginated"
    /\ UNCHANGED <<queryset, query_params, search_fields, filter_fields>>

\* the client requests the next link of the page it was served
FollowNext ==
    /\ UNCHANGED <<user_table, media, master_table>>
    /\ pc = "paginated"
    /\ UNCHANGED <<sort_fields, default_sort, audit_log, call_args>>
    /\ result.value.next # None
    /\ query_params' = RequestFor(result.value.next)
    /\ pc' = "request"
    /\ pagination_params' = NoParams
    /\ result' = NoResult
    /\ UNCHANGED <<queryset, search_fields, filter_fields>>

\* the client requests the previous link of the page it was served
FollowPrevious ==
    /\ UNCHANGED <<user_table, media, master_table>>
    /\ pc = "paginated"
    /\ UNCHANGED <<sort_fields, default_sort, audit_log, call_args>>
    /\ result.value.previous # None
    /\ query_params' = RequestFor(result.value.previous)
    /\ pc' = "request"
    /\ pagination_params' = NoParams
    /\ result' = NoResult
    /\ UNCHANGED <<queryset, search_fields, filter_fields>>

\* the response is sent and the request's objects are dropped
Finish ==
    /\ UNCHANGED <<user_table, media, master_table>>
    /\ pc \in {"paginated", "searched", "filtered", "master_filtered",
              "sorted", "all_filtered", "recorded", "responded", "handled",
              "master_listed", "audit_listed", "exported", "permission_checked",
              "user_deleted", "user_restored", "user_hard_deleted", "fetched",
              "deleted", "restored", "bulk_deleted", "bulk_undeleted",
              "hard_deleted", "standard_paginated", "written"}
    /\ pc' = "idle"
    /\ queryset' = <<>>
    /\ query_params' = <<>>
    /\ search_fields' = <<>>
    /\ filter_fields' = <<>>
    /\ pagination_params' = NoParams
    /\ sort_fields' = <<>>
    /\ default_sort' = <<>>
    /\ call_args' = NoCall
    /\ result' = NoResult
    /\ UNCHANGED audit_log

PageNext == ListRequest \/ Paginate \/ FollowNext \/ FollowPrevious \/ Finish

SpecPage == Init /\ [][PageNext]_vars

\* a request with a search term arrives at an endpoint with its search fields
SearchRequest ==
    /\ UNCHANGED <<user_table, media, master_table>>
    /\ pc = "idle"
    /\ UNCHANGED <<sort_fields, default_sort, audit_log, call_args>>
    /\ \E S \in SUBSET (1..NumRecords), sv \in SearchChoices, sf \in SearchFieldChoices :
        /\ queryset' = SetToSeq(S)
        /\ query_params' = Entry(SEARCH, sv)
        /\ search_fields' = sf
    /\ filter_fields' = <<>>
    /\ pc' = "request"
    /\ UNCHANGED <<pagination_params, result>>

\* a request with filter values arrives at an endpoint with its filter fields
ExactRequest ==
    /\ UNCHANGED <<user_table, media, master_table>>
    /\ pc = "idle"
    /\ UNCHANGED <<sort_fields, default_sort, audit_log, call_args>>
    /\ \E S \in SUBSET (1..NumRecords), st \in StatusChoices, bv \in BoolChoices,
          lv \in LevelChoices, ff \in FilterFieldChoices :
        /\ queryset' = SetToSeq(S)
        /\ query_params' = Entry(STATUS, st) \o Entry(NOFIELD, << <<"1">> >>)
                              \o Entry(IS_ACTIVE, bv) \o Entry(LEVEL, lv)
        /\ filter_fields' = ff
    /\ search_fields' = <<>>
    /\ pc' = "request"
    /\ UNCHANGED <<pagination_params, result>>

\* apply_search_filter(request, queryset, search_fields)
ApplySearchFilter ==
    /\ UNCHANGED <<user_table, media, master_table>>
    /\ pc = "request"
    /\ UNCHANGED <<sort_fields, default_sort, audit_log, call_args>>
    /\ result' = [ok |-> TRUE,
                  value |-> apply_search_filter(queryset, query_params, search_fields)]
    /\ pc' = "searched"
    /\ UNCHANGED <<queryset, query_params, search_fields, filter_fields, pagination_params>>

\* apply_exact_filters(request, queryset, filter_fields)
ApplyExactFilters ==
    /\ UNCHANGED <<user_table, media, master_table>>
    /\ pc = "request"
    /\ UNCHANGED <<sort_fields, default_sort, audit_log, call_args>>
    /\ result' = apply_exact_filters(queryset, query_params, filter_fields)
    /\ pc' = "filtered"
    /\ UNCHANGED <<queryset, query_params, search_fields, filter_fields, pagination_params>>

\* BaseMasterListCreateView.apply_filters(queryset, request)
MasterApplyFilters ==
    /\ UNCHANGED <<user_table, media, master_table>>
    /\ pc = "request"
    /\ UNCHANGED <<sort_fields, default_sort, audit_log, call_args>>
    /\ result' = master_apply_filters(queryset, query_params, search_fields, filter_fields)
    /\ pc' = "master_filtered"
    /\ UNCHANGED <<queryset, query_params, search_fields, filter_fields, pagination_params>>

FilterNext ==
    \/ SearchRequest \/ ExactRequest
    \/ ApplySearchFilter \/ ApplyExactFilters \/ MasterApplyFilters
    \/ Finish

SpecFilter == Init /\ [][FilterNext]_vars

\* a request with a sort key arrives at an endpoint with its allow-list and
\* default; it may carry a search term and filter values as well
SortRequest ==
    /\ UNCHANGED <<user_table, media, master_table>>
    /\ pc = "idle"
    /\ \E S \in SUBSET (1..NumRecords), sv \in SortByChoices, sf \in SortFieldChoices,
          ds \in DefaultSortChoices, others \in BOOLEAN,
          srch \in {<<>>, <<NAME>>}, ff \in {<<>>, <<LEVEL, STATUS>>} :
        /\ queryset' = SetToSeq(S)
        /\ query_params' =
                Entry(SORT_BY, sv)
                    \o (IF others
                        THEN Entry(SEARCH, << <<"b">> >>) \o Entry(LEVEL, << <<"x">> >>)
                                \o Entry(STATUS, <<ACTIVE, PENDING>>)
                        ELSE <<>>)
        /\ sort_fields' = sf
        /\ default_sort' = ds
        /\ search_fields' = srch
        /\ filter_fields' = ff
    /\ pc' = "sort_request"
    /\ UNCHANGED <<pagination_params, audit_log, call_args, result>>

\* apply_sorting(request, queryset, sort_fields, default_sort)
ApplySorting ==
    /\ UNCHANGED <<user_table, media, master_table>>
    /\ pc = "sort_request"
    /\ \E r \in apply_sorting(queryset, query_params, sort_fields, default_sort) :
            result' = r
    /\ pc' = "sorted"
    /\ UNCHANGED <<queryset, query_params, search_fields, filter_fields,
                   pagination_params, sort_fields, default_sort, audit_log, call_args>>

\* apply_all_filters(request, queryset, search_fields, filter_fields,
\* sort_fields, default_sort)
ApplyAllFilters ==
    /\ UNCHANGED <<user_table, media, master_table>>
    /\ pc = "sort_request"
    /\ \E r \in apply_all_filters(queryset, query_params, search_fields, filter_fields,
                                 sort_fields, default_sort) :
            result' = r
    /\ pc' = "all_filtered"
    /\ UNCHANGED <<queryset, query_params, search_fields, filter_fields,
                   pagination_params, sort_fields, default_sort, audit_log, call_args>>

SortNext == SortRequest \/ ApplySorting \/ ApplyAllFilters \/ Finish

SpecSort == Init /\ [][SortNext]_vars

\* use-case code records an event: log_audit_event(action, module, ...)
RecordEvent ==
    /\ UNCHANGED <<user_table, media, master_table>>
    /\ pc = "idle"
    /\ audit_log.last_id < MaxEvents
    /\ \E args \in CallChoices :
        /\ call_args' = args
        /\ audit_log' = log_audit_event(audit_log, args).table
        /\ result' = log_audit_event(audit_log, args).result
    /\ pc' = "recorded"
    /\ UNCHANGED <<queryset, query_params, search_fields, filter_fields,
                   pagination_params, sort_fields, default_sort>>

\* instance.delete() on a stored audit record
InstanceDelete ==
    /\ UNCHANGED <<user_table, media, master_table>>
    /\ pc = "idle"
    /\ \E id \in Ids(with_deleted(audit_log)) : audit_log' = instance_delete(audit_log, id)
    /\ UNCHANGED <<pc, queryset, query_params, search_fields, filter_fields,
                   pagination_params, sort_fields, default_sort, call_args, result>>

\* instance.restore() on a stored audit record
InstanceRestore ==
    /\ UNCHANGED <<user_table, media, master_table>>
    /\ pc = "idle"
    /\ \E id \in Ids(with_deleted(audit_log)) : audit_log' = instance_restore(audit_log, id)
    /\ UNCHANGED <<pc, queryset, query_params, search_fields, filter_fields,
                   pagination_params, sort_fields, default_sort, call_args, result>>

\* instance.hard_delete() on a stored audit record
InstanceHardDelete ==
    /\ UNCHANGED <<user_table, media, master_table>>
    /\ pc = "idle"
    /\ \E id \in Ids(with_deleted(audit_log)) :
            audit_log' = instance_hard_delete(audit_log, id)
    /\ UNCHANGED <<pc, queryset, query_params, search_fields, filter_fields,
                   pagination_params, sort_fields, default_sort, call_args, result>>

\* AuditLog.objects.filter(...).delete()
BulkDelete ==
    /\ UNCHANGED <<user_table, media, master_table>>
    /\ pc = "idle"
    /\ \E ids \in SUBSET Ids(objects(audit_log)) :
        /\ ids # {}
        /\ audit_log' = qs_delete(audit_log, ids)
    /\ UNCHANGED <<pc, queryset, query_params, search_fields, filter_fields,
                   pagination_params, sort_fields, default_sort, call_args, result>>

\* AuditLog.objects.deleted().filter(...).undelete()
BulkUndelete ==
    /\ UNCHANGED <<user_table, media, master_table>>
    /\ pc = "idle"
    /\ \E ids \in SUBSET Ids(deleted(audit_log)) :
        /\ ids # {}
        /\ audit_log' = qs_undelete(audit_log, ids)
    /\ UNCHANGED <<pc, queryset, query_params, search_fields, filter_fields,
                   pagination_params, sort_fields, default_sort, call_args, result>>

\* AuditLog.objects.with_deleted().filter(...).hard_delete()
BulkHardDelete ==
    /\ UNCHANGED <<user_table, media, master_table>>
    /\ pc = "idle"
    /\ \E ids \in SUBSET Ids(with_deleted(audit_log)) :
        /\ ids # {}
        /\ audit_log' = qs_hard_delete(audit_log, ids)
    /\ UNCHANGED <<pc, queryset, query_params, search_fields, filter_fields,
                   pagination_params, sort_fields, default_sort, call_args, result>>

AuditNext ==
    \/ RecordEvent
    \/ InstanceDelete \/ InstanceRestore \/ InstanceHardDelete
    \/ BulkDelete \/ BulkUndelete \/ BulkHardDelete
    \/ Finish

SpecAudit == Init /\ [][AuditNext]_vars

\* a view returns success_response(...)
SuccessResponse ==
    /\ UNCHANGED <<user_table, media, master_table>>
    /\ pc = "idle"
    /\ \E call \in SuccessCalls :
        /\ call_args' = call
        /\ result' = Returned(success_response(call.message_code, call.object, call.message))
    /\ pc' = "responded"
    /\ UNCHANGED <<queryset, query_params, search_fields, filter_fields,
                   pagination_params, sort_fields, default_sort, audit_log>>

\* a view returns error_response(...)
ErrorResponse ==
    /\ UNCHANGED <<user_table, media, master_table>>
    /\ pc = "idle"
    /\ \E call \in ErrorCalls :
        /\ call_args' = call
        /\ result' = Returned(error_response(call.message_code, call.object, call.message))
    /\ pc' = "responded"
    /\ UNCHANGED <<queryset, query_params, search_fields, filter_fields,
                   pagination_params, sort_fields, default_sort, audit_log>>

\* an exception leaves a view: custom_exception_handler(exc, context)
HandleException ==
    /\ UNCHANGED <<user_table, media, master_table>>
    /\ pc = "idle"
    /\ \E exc \in ExceptionChoices :
        /\ call_args' = exc
        /\ result' = Returned(custom_exception_handler(exc))
    /\ pc' = "handled"
    /\ UNCHANGED <<queryset, query_params, search_fields, filter_fields,
                   pagination_params, sort_fields, default_sort, audit_log>>

ResponseNext == SuccessResponse \/ ErrorResponse \/ HandleException \/ Finish

SpecResponse == Init /\ [][ResponseNext]_vars


\* a request arrives at the audit read side
ReadRequest ==
    /\ UNCHANGED <<user_table, media, master_table>>
    /\ pc = "idle"
    /\ \E qp \in AuditQueryChoices : query_params' = qp
    /\ pc' = "read_request"
    /\ UNCHANGED <<queryset, search_fields, filter_fields, pagination_params,
                   sort_fields, default_sort, audit_log, call_args, result>>

\* GET on AuditLogList: AuditLogList.get under APIView.dispatch
AuditList ==
    /\ UNCHANGED <<user_table, media, master_table>>
    /\ pc = "read_request"
    /\ queryset' = AuditLogList_apply_filters(query_params, NewestFirst(objects(audit_log)))
    /\ result' = Returned(Dispatch(AuditLogList_get(audit_log, query_params)))
    /\ pc' = "audit_listed"
    /\ UNCHANGED <<query_params, search_fields, filter_fields, pagination_params,
                   sort_fields, default_sort, audit_log, call_args>>

\* GET on AuditLogCSVExportView
ExportCsv ==
    /\ UNCHANGED <<user_table, media, master_table>>
    /\ pc = "read_request"
    /\ queryset' = apply_audit_log_filters(query_params, get_audit_logs_for_export(audit_log))
    /\ result' = Returned(AuditLogCSVExportView_get(audit_log, query_params))
    /\ pc' = "exported"
    /\ UNCHANGED <<query_params, search_fields, filter_fields, pagination_params,
                   sort_fields, default_sort, audit_log, call_args>>

\* a list request arrives at a master-data view
MasterListRequest ==
    /\ UNCHANGED <<user_table, media, master_table>>
    /\ pc = "idle"
    /\ \E n \in 0..NumRecords, qp \in MasterQueryChoices, code \in ListSuccessCodes,
          m_fields \in {<<>>, <<STATUS, LEVEL>>} :
        /\ queryset' = Newest(n)
        /\ query_params' = qp
        /\ search_fields' = <<NAME>>
        /\ filter_fields' = m_fields
        /\ call_args' = [list_success_code |-> code]
    /\ pc' = "list_request"
    /\ UNCHANGED <<pagination_params, sort_fields, default_sort, audit_log, result>>

\* GET on a master-data view: BaseMasterListCreateView.get under
\* APIView.dispatch, with ordering = ['-created_at']
MasterList ==
    /\ UNCHANGED <<user_table, media, master_table>>
    /\ pc = "list_request"
    /\ \E filtered \in {master_apply_filters(queryset, query_params,
                                              search_fields, filter_fields)} :
            IF ~filtered.ok
            THEN /\ queryset' = queryset
                 /\ result' = Returned(Dispatch(Raised("ValueError")))
            ELSE \E ordered \in order_by(filtered.value, <<"-">> \o CREATED_AT) :
                 /\ queryset' = ordered.value
                 /\ result' = Returned(BaseMasterListCreateView_get(
                                         ordered.value, query_params,
                                         call_args.list_success_code))
    /\ pc' = "master_listed"
    /\ UNCHANGED <<query_params, search_fields, filter_fields, pagination_params,
                   sort_fields, default_sort, audit_log, call_args>>

ReadNext ==
    \/ RecordEvent
    \/ ReadRequest \/ AuditList \/ ExportCsv
    \/ MasterListRequest \/ MasterList
    \/ Finish

SpecRead == Init /\ [][ReadNext]_vars


\* a request reaches the permission check of a view
PermissionRequest ==
    /\ UNCHANGED <<user_table, media, master_table>>
    /\ pc = "idle"
    /\ \E user \in RequestUsers, view \in ViewChoices :
            call_args' = [user |-> user, view |-> view]
    /\ pc' = "permission_request"
    /\ UNCHANGED <<queryset, query_params, search_fields, filter_fields,
                   pagination_params, sort_fields, default_sort, audit_log, result>>

\* HasRequiredPermissions.has_permission(request, view)
CheckPermission ==
    /\ UNCHANGED <<user_table, media, master_table>>
    /\ pc = "permission_request"
    /\ result' = Returned(has_permission(call_args.user, call_args.view))
    /\ pc' = "permission_checked"
    /\ UNCHANGED <<queryset, query_params, search_fields, filter_fields,
                   pagination_params, sort_fields, default_sort, audit_log, call_args>>

PermissionNext == PermissionRequest \/ CheckPermission \/ Finish

SpecPermission == Init /\ [][PermissionNext]_vars


\* use-case code records an event on behalf of a stored user, or of none
RecordActorEvent ==
    /\ pc = "idle"
    /\ audit_log.last_id < MaxEvents
    /\ \E args \in CallChoices :
        /\ args.user # NoneInt => args.user \in Ids(with_deleted(user_table))
        /\ call_args' = args
        /\ audit_log' = log_audit_event(audit_log, args).table
        /\ result' = log_audit_event(audit_log, args).result
    /\ pc' = "recorded"
    /\ UNCHANGED <<queryset, query_params, search_fields, filter_fields,
                   pagination_params, sort_fields, default_sort,
                   user_table, media, master_table>>

\* user.delete() on a stored user
UserDelete ==
    /\ pc = "idle"
    /\ \E user \in Ids(with_deleted(user_table)) :
        /\ call_args' = [user |-> user]
        /\ user_table' = user_delete(user_table, audit_log, user).users
        /\ audit_log' = user_delete(user_table, audit_log, user).events
    /\ pc' = "user_deleted"
    /\ UNCHANGED <<queryset, query_params, search_fields, filter_fields,
                   pagination_params, sort_fields, default_sort, result,
                   media, master_table>>

\* user.restore() on a stored user
UserRestore ==
    /\ pc = "idle"
    /\ \E user \in Ids(with_deleted(user_table)) :
        /\ call_args' = [user |-> user]
        /\ user_table' = user_restore(user_table, audit_log, user).users
        /\ audit_log' = user_restore(user_table, audit_log, user).events
    /\ pc' = "user_restored"
    /\ UNCHANGED <<queryset, query_params, search_fields, filter_fields,
                   pagination_params, sort_fields, default_sort, result,
                   media, master_table>>

\* user.hard_delete() on a stored user
UserHardDelete ==
    /\ pc = "idle"
    /\ \E user \in Ids(with_deleted(user_table)) :
        /\ call_args' = [user |-> user]
        /\ user_table' = user_hard_delete(user_table, audit_log, user).users
        /\ audit_log' = user_hard_delete(user_table, audit_log, user).events
    /\ pc' = "user_hard_deleted"
    /\ UNCHANGED <<queryset, query_params, search_fields, filter_fields,
                   pagination_params, sort_fields, default_sort, result,
                   media, master_table>>

UserNext ==
    \/ RecordActorEvent
    \/ UserDelete \/ UserRestore \/ UserHardDelete
    \/ Finish

SpecUser == Init /\ [][UserNext]_vars


\* a list request arrives while other requests write to the same table
DriftRequest ==
    /\ pc = "idle"
    /\ \E S \in SUBSET (1..NumRecords), pv \in DriftPageChoices, lv \in DriftLimitChoices :
        /\ queryset' = SetToSeq(S)
        /\ query_params' = Entry(PAGE, pv) \o Entry(LIMIT, lv)
    /\ pc' = "page_request"
    /\ UNCHANGED <<search_fields, filter_fields, pagination_params, sort_fields,
                   default_sort, audit_log, call_args, result,
                   user_table, media, master_table>>

\* apply_manual_pagination up to its return: the count query and the links
CountPage ==
    /\ pc = "page_request"
    /\ pagination_params' = get_pagination_params(query_params)
    /\ call_args' = CountedPage(queryset, query_params)
    /\ pc' = "counted"
    /\ UNCHANGED <<queryset, query_params, search_fields, filter_fields, sort_fields,
                   default_sort, audit_log, result, user_table, media, master_table>>

\* another request inserts a record between the count and the fetch
OtherInsert ==
    /\ pc = "counted"
    /\ \E i \in 1..NumRecords :
        /\ i \notin Ids(queryset)
        /\ queryset' = SetToSeq(Ids(queryset) \cup {i})
    /\ UNCHANGED <<pc, query_params, search_fields, filter_fields, pagination_params,
                   sort_fields, default_sort, audit_log, call_args, result,
                   user_table, media, master_table>>

\* another request deletes a record between the count and the fetch
OtherDelete ==
    /\ pc = "counted"
    /\ \E i \in Ids(queryset) : queryset' = SetToSeq(Ids(queryset) \ {i})
    /\ UNCHANGED <<pc, query_params, search_fields, filter_fields, pagination_params,
                   sort_fields, default_sort, audit_log, call_args, result,
                   user_table, media, master_table>>

\* the response is built: the page is fetched
FetchRows ==
    /\ pc = "counted"
    /\ result' = Returned([data     |-> FetchPage(call_args, queryset),
                           total    |-> call_args.total,
                           next     |-> call_args.next,
                           previous |-> call_args.previous])
    /\ pc' = "fetched"
    /\ UNCHANGED <<queryset, query_params, search_fields, filter_fields,
                   pagination_params, sort_fields, default_sort, audit_log, call_args,
                   user_table, media, master_table>>

ConcurrentNext ==
    \/ DriftRequest \/ CountPage
    \/ OtherInsert \/ OtherDelete
    \/ FetchRows
    \/ Finish

SpecConcurrent == Init /\ [][ConcurrentNext]_vars


\* instance.delete() on a stored record
SoftDelete ==
    /\ pc = "idle"
    /\ \E id \in Ids(with_deleted(master_table)) :
        /\ call_args' = [ids |-> {id}, before |-> master_table]
        /\ master_table' = instance_delete(master_table, id)
    /\ pc' = "deleted"
    /\ UNCHANGED <<queryset, query_params, search_fields, filter_fields,
                   pagination_params, sort_fields, default_sort, audit_log, result,
                   user_table, media>>

\* instance.restore() on a stored record
Restore ==
    /\ pc = "idle"
    /\ \E id \in Ids(with_deleted(master_table)) :
        /\ call_args' = [ids |-> {id}, before |-> master_table]
        /\ master_table' = instance_restore(master_table, id)
    /\ pc' = "restored"
    /\ UNCHANGED <<queryset, query_params, search_fields, filter_fields,
                   pagination_params, sort_fields, default_sort, audit_log, result,
                   user_table, media>>

\* instance.hard_delete() on a stored record
HardDelete ==
    /\ pc = "idle"
    /\ \E id \in Ids(with_deleted(master_table)) :
        /\ call_args' = [ids |-> {id}, before |-> master_table]
        /\ master_table' = instance_hard_delete(master_table, id)
    /\ pc' = "hard_deleted"
    /\ UNCHANGED <<queryset, query_params, search_fields, filter_fields,
                   pagination_params, sort_fields, default_sort, audit_log, result,
                   user_table, media>>

\* Model.objects.filter(...).delete()
QuerySetDelete ==
    /\ pc = "idle"
    /\ \E ids \in SUBSET Ids(objects(master_table)) :
        /\ ids # {}
        /\ call_args' = [ids |-> ids, before |-> master_table]
        /\ master_table' = qs_delete(master_table, ids)
    /\ pc' = "bulk_deleted"
    /\ UNCHANGED <<queryset, query_params, search_fields, filter_fields,
                   pagination_params, sort_fields, default_sort, audit_log, result,
                   user_table, media>>

\* Model.objects.deleted().filter(...).undelete()
QuerySetUndelete ==
    /\ pc = "idle"
    /\ \E ids \in SUBSET Ids(deleted(master_table)) :
        /\ ids # {}
        /\ call_args' = [ids |-> ids, before |-> master_table]
        /\ master_table' = qs_undelete(master_table, ids)
    /\ pc' = "bulk_undeleted"
    /\ UNCHANGED <<queryset, query_params, search_fields, filter_fields,
                   pagination_params, sort_fields, default_sort, audit_log, result,
                   user_table, media>>

SoftDeleteNext ==
    \/ SoftDelete \/ Restore \/ HardDelete
    \/ QuerySetDelete \/ QuerySetUndelete
    \/ Finish

SpecSoftDelete == Init /\ [][SoftDeleteNext]_vars


\* a list request arrives at a view that uses the default pagination class
StandardRequest ==
    /\ pc = "idle"
    /\ \E n \in {0, NumRecords, MaxRecords, MaxLimit + NumRecords},
          pv \in PageChoices \cup {<<LAST>>},
          lv \in LimitChoices, ex \in ExtraChoices :
        /\ queryset' = Newest(n)
        /\ query_params' = Entry(PAGE, pv) \o ex \o Entry(LIMIT, lv)
    /\ pc' = "standard_request"
    /\ UNCHANGED <<search_fields, filter_fields, pagination_params, sort_fields,
                   default_sort, audit_log, call_args, result,
                   user_table, media, master_table>>

\* StandardPagination.paginate_queryset and get_paginated_response;
\* pagination_params records the page size and the page number it resolved
\* (no number when the page size is 0: the paginator is not built then)
StandardPaginate ==
    /\ pc = "standard_request"
    /\ pagination_params' =
            [should_paginate |-> get_page_size(query_params) # 0,
             page  |-> IF get_page_size(query_params) = 0 THEN NoneInt
                       ELSE get_page_number(query_params,
                                            PaginatorNumPages(Len(queryset),
                                                              get_page_size(query_params))),
             limit |-> get_page_size(query_params)]
    /\ \E outcome \in paginate_queryset(queryset, query_params) : result' = outcome
    /\ pc' = "standard_paginated"
    /\ UNCHANGED <<queryset, query_params, search_fields, filter_fields, sort_fields,
                   default_sort, audit_log, call_args, user_table, media, master_table>>

StandardNext == StandardRequest \/ StandardPaginate \/ Finish

SpecStandard == Init /\ [][StandardNext]_vars


\* a create or update request arrives at a master-data view
WriteRequest ==
    /\ pc = "idle"
    /\ Cardinality(media) < MaxFiles
    /\ Len(master_table.rows) <= NumRecords
    /\ \E request \in WriteRequests : call_args' = request
    /\ pc' = "write_request"
    /\ UNCHANGED <<queryset, query_params, search_fields, filter_fields,
                   pagination_params, sort_fields, default_sort, audit_log, result,
                   user_table, media, master_table>>

\* BaseMasterListCreateView.post(request)
MasterPost ==
    /\ pc = "write_request"
    /\ call_args.method = "POST"
    /\ \E left \in {post(call_args, master_table, media)} :
        /\ result' = left.result
        /\ master_table' = left.table
        /\ media' = left.files
    /\ pc' = "written"
    /\ UNCHANGED <<queryset, query_params, search_fields, filter_fields,
                   pagination_params, sort_fields, default_sort, audit_log, call_args,
                   user_table>>

\* BaseMasterDetailView.put(request, id)
MasterPut ==
    /\ pc = "write_request"
    /\ call_args.method = "PUT"
    /\ \E left \in {put(call_args, master_table, media)} :
        /\ result' = left.result
        /\ master_table' = left.table
        /\ media' = left.files
    /\ pc' = "written"
    /\ UNCHANGED <<queryset, query_params, search_fields, filter_fields,
                   pagination_params, sort_fields, default_sort, audit_log, call_args,
                   user_table>>

WriteNext == WriteRequest \/ MasterPost \/ MasterPut \/ Finish

SpecWrite == Init /\ [][WriteNext]_vars

---------------------------------------------------------------------------
(* Properties of the paginator (checked under SpecPage)                    *)

Paginated == pc = "paginated"

\* the raw value the request carries for a key (None when the key is absent)
Raw(key) == QGet(query_params, key, None)

\* pages the collection holds at the effective limit
PagesOf(n, limit) == (n + limit - 1) \div limit

\* the page that is served: the parsed page, or the last page when the
\* parsed page lies beyond it
ServedPage ==
    LET last == Max(1, PagesOf(Len(queryset), pagination_params.limit))
    IN  Min(pagination_params.page, last)

\* the page and limit a link carries, read back from its query string
LinkInt(url, key) == PyInt(QGet(RequestFor(url), key, <<>>)).val

\* C1: the total returned by apply_manual_pagination is the size of the whole
\* collection handed to it, for every page and limit, paginated or not
C1_TotalIsCollectionSize ==
    Paginated => result.value.total = Len(queryset)

C1_Witness ==
    /\ Paginated
    /\ pagination_params.should_paginate
    /\ Len(queryset) = 25
    /\ Len(result.value.data) = 5
    /\ result.value.total = 25

\* C2: whatever the raw page and limit are, the parsed limit is in 1..100 and
\* the parsed page is at least 1
C2_ParamsInRange ==
    Paginated =>
        /\ pagination_params.limit \in 1..100
        /\ pagination_params.page >= 1

C2_Witness ==
    /\ Paginated
    /\ Raw(PAGE) = <<"-", "1">>
    /\ Raw(LIMIT) = <<"2", "5", "0">>
    /\ pagination_params.page = 1
    /\ pagination_params.limit = 100

\* C3: with neither page nor limit in the request, pagination is off and the
\* whole collection is returned with its size as total and no links
C3_NoParamsReturnsAll ==
    (Paginated /\ ~QHas(query_params, PAGE) /\ ~QHas(query_params, LIMIT)) =>
        /\ ~pagination_params.should_paginate
        /\ result.value.data = queryset
        /\ result.value.total = Len(queryset)
        /\ result.value.next = None
        /\ result.value.previous = None

C3_Witness ==
    /\ Paginated
    /\ ~QHas(query_params, PAGE) /\ ~QHas(query_params, LIMIT)
    /\ query_params # <<>>
    /\ Len(queryset) = 25
    /\ Len(result.value.data) = 25

\* C4: a paginated result holds the records at positions (p-1)*L+1 ..
\* min(p*L, N) of the collection, p the served page; next is set exactly when
\* p*L < N and carries page p+1, previous exactly when p > 1 and carries p-1
C4_PageSliceAndLinks ==
    (Paginated /\ pagination_params.should_paginate) =>
        LET L == pagination_params.limit
            N == Len(queryset)
            p == ServedPage
        IN  /\ result.value.data = SubSeq(queryset, (p - 1) * L + 1, Min(p * L, N))
            /\ result.value.total = N
            /\ (result.value.next # None) <=> (p * L < N)
            /\ (result.value.next # None) => LinkInt(result.value.next, PAGE) = p + 1
            /\ (result.value.previous # None) <=> (p > 1)
            /\ (result.value.previous # None) =>
                    LinkInt(result.value.previous, PAGE) = p - 1

\* 25 records, page=2, limit=10: items 11..20, total 25, links to pages 1 and 3
C4_Witness ==
    /\ Paginated
    /\ Len(queryset) = 25
    /\ Raw(PAGE) = <<"2">> /\ Raw(LIMIT) = <<"1", "0">>
    /\ result.value.data = SubSeq(queryset, 11, 20)
    /\ result.value.total = 25
    /\ LinkInt(result.value.previous, PAGE) = 1
    /\ LinkInt(result.value.next, PAGE) = 3

\* what the claim asks of one link that leads to page `target`
LinkCarries(url, target) ==
    LET sent == RequestFor(url)
    IN  /\ \A i \in 1..Len(query_params) :
                query_params[i].key \notin {PAGE, LIMIT} =>
                    QGetList(sent, query_params[i].key) = query_params[i].vals
        /\ \A i \in 1..Len(sent) :
                sent[i].key \notin {PAGE, LIMIT} => QHas(query_params, sent[i].key)
        /\ Len(QGetList(sent, PAGE)) = 1
        /\ Len(QGetList(sent, LIMIT)) = 1
        /\ PyInt(QGetList(sent, PAGE)[1]) = [ok |-> TRUE, val |-> target]
        /\ PyInt(QGetList(sent, LIMIT)[1]) = [ok |-> TRUE, val |-> pagination_params.limit]

\* C5: a next / previous link carries every other parameter of the request
\* with all its values, and exactly one page (the adjacent page) and one limit
\* (the effective limit)
C5_LinksKeepOtherParams ==
    Paginated =>
        /\ (result.value.next # None) => LinkCarries(result.value.next, ServedPage + 1)
        /\ (result.value.previous # None) =>
                LinkCarries(result.value.previous, ServedPage - 1)

C5_Witness ==
    /\ Paginated
    /\ QGetList(query_params, STATUS) = <<ACTIVE, INACTIVE>>
    /\ Len(QGetList(query_params, PAGE)) = 2
    /\ Len(QGetList(query_params, LIMIT)) = 2
    /\ result.value.next # None
    /\ result.value.previous # None
    /\ QGetList(RequestFor(result.value.next), STATUS) = <<ACTIVE, INACTIVE>>

\* C6: parsing the next link's parameters gives should_paginate, the served
\* page plus one and the same limit; the previous link the served page minus one
C6_LinkRoundTrip ==
    Paginated =>
        /\ (result.value.next # None) =>
                get_pagination_params(RequestFor(result.value.next))
                    = [should_paginate |-> TRUE, page |-> ServedPage + 1,
                       limit |-> pagination_params.limit]
        /\ (result.value.previous # None) =>
                get_pagination_params(RequestFor(result.value.previous))
                    = [should_paginate |-> TRUE, page |-> ServedPage - 1,
                       limit |-> pagination_params.limit]

\* a request whose limit is clamped and whose page is clamped to the last one
C6_Witness ==
    /\ Paginated
    /\ Raw(LIMIT) = <<"0">>
    /\ Raw(PAGE) = <<"3", "0">>
    /\ Len(queryset) = 25
    /\ result.value.previous # None
    /\ get_pagination_params(RequestFor(result.value.previous)).page = 24

\* C7: a page number beyond the pages the collection has is served the last
\* page (nothing, total 0 and no links for an empty collection), with no next
C7_PageBeyondLastIsClamped ==
    (Paginated /\ pagination_params.should_paginate
        /\ pagination_params.page > PagesOf(Len(queryset), pagination_params.limit)) =>
        LET L    == pagination_params.limit
            N    == Len(queryset)
            last == PagesOf(N, L)
        IN  /\ result.ok
            /\ result.value.next = None
            /\ result.value.total = N
            /\ IF N = 0
               THEN result.value.data = <<>> /\ result.value.previous = None
               ELSE /\ result.value.data = SubSeq(queryset, (last - 1) * L + 1, N)
                    /\ result.value.data # <<>>

C7_Witness ==
    /\ Paginated
    /\ Raw(PAGE) = <<"7">> /\ Raw(LIMIT) = <<"1", "0">>
    /\ Len(queryset) = 25
    /\ result.value.data = SubSeq(queryset, 21, 25)
    /\ result.value.next = None

C7_WitnessEmpty ==
    /\ Paginated
    /\ Raw(PAGE) = <<"7">>
    /\ queryset = <<>>
    /\ result.value.data = <<>>

\* a raw value that is absent, empty, or holds a character no number has
Unusable(raw) ==
    \/ raw = None
    \/ raw = <<>>
    \/ \E i \in 1..Len(raw) :
            ~IsDigit(raw[i]) /\ raw[i] \notin {"-", "+", " ", "_", "."}

\* a raw value that is a plain run of digits
PlainNumber(raw) == raw # None /\ raw # <<>> /\ \A i \in 1..Len(raw) : IsDigit(raw[i])

\* C8: when page or limit is present, an absent, empty or non-numeric one
\* takes its default (page 1, limit 10) whatever the other is, a valid one is
\* kept, and a request with only limit=5 gets the first 5 records
C8_DefaultsAreIndependent ==
    (Paginated /\ (QHas(query_params, PAGE) \/ QHas(query_params, LIMIT))) =>
        /\ result.ok
        /\ pagination_params.should_paginate
        /\ Unusable(Raw(PAGE)) => pagination_params.page = 1
        /\ Unusable(Raw(LIMIT)) => pagination_params.limit = 10
        /\ (PlainNumber(Raw(PAGE)) /\ DecVal(Raw(PAGE)) >= 1) =>
                pagination_params.page = DecVal(Raw(PAGE))
        /\ (PlainNumber(Raw(LIMIT)) /\ DecVal(Raw(LIMIT)) \in 1..100) =>
                pagination_params.limit = DecVal(Raw(LIMIT))
        /\ (Raw(PAGE) = None /\ Raw(LIMIT) = <<"5">>) =>
                result.value.data = SubSeq(queryset, 1, Min(5, Len(queryset)))

C8_Witness ==
    /\ Paginated
    /\ Raw(PAGE) = None /\ Raw(LIMIT) = <<"5">>
    /\ Len(queryset) = 25
    /\ result.value.data = SubSeq(queryset, 1, 5)
    /\ pagination_params = [should_paginate |-> TRUE, page |-> 1, limit |-> 5]

---------------------------------------------------------------------------
(* Properties of the filters (checked under SpecFilter)                    *)

Range(seq) == {seq[i] : i \in 1..Len(seq)}

\* the non-blank values the request supplies for a key, trimmed
Supplied(field) == {Strip(v) : v \in Range(QGetList(query_params, field))} \ {<<>>}

\* the values that remain for a declared field once the unusable ones are
\* dropped: valid choices of a choice field, true/false/1/0 of a boolean
\* field (as booleans), the integers of an integer field
Remaining(field) ==
    CASE field = STATUS    -> Supplied(field) \cap Range(ValidChoices(field))
      [] field = IS_ACTIVE ->
            {b \in BOOLEAN : \E v \in Supplied(field) :
                Lower(v) \in (IF b THEN TrueWords ELSE BoolWords \ TrueWords)}
      [] field = LEVEL     -> {PyInt(v).val : v \in Supplied(field)}
      [] OTHER             -> Supplied(field)

\* a declared field filters when it is a field of the model, some value
\* remains for it, and the lookup on it does not fail
Filters(field) ==
    /\ field \in ModelFields
    /\ Remaining(field) # {}
    /\ field = LEVEL => \A v \in Supplied(field) : PyInt(v).ok

StoredValue(rec, field) ==
    CASE field = IS_ACTIVE -> rec.is_active
      [] field = LEVEL     -> rec.level
      [] OTHER             -> TextOf(rec, field)

\* C9: for each declared field, every value of its key is collected; one
\* remaining value selects the records equal to it, several the union of the
\* records matching any of them
C9_ExactFiltersSelectUnion ==
    pc = "filtered" =>
        LET Selected(rec) ==
                \A i \in 1..Len(filter_fields) :
                    Filters(filter_fields[i]) =>
                        StoredValue(rec, filter_fields[i]) \in Remaining(filter_fields[i])
        IN  result.value = SelectSeq(queryset, Selected)

\* status=active&status=inactive over all stored records
C9_Witness ==
    /\ pc = "filtered"
    /\ filter_fields = <<STATUS>>
    /\ QGetList(query_params, STATUS) = <<ACTIVE, INACTIVE>>
    /\ Len(queryset) = NumRecords
    /\ \E i, j \in 1..Len(result.value) :
            result.value[i].status = ACTIVE /\ result.value[j].status = INACTIVE
    /\ \A i \in 1..Len(result.value) : result.value[i].status # PENDING
    /\ Len(result.value) < Len(queryset)

\* the search contract, for the collection `found` a search step returns
SearchContract(found) ==
    LET term      == Strip(QGet(query_params, SEARCH, <<>>))
        Hit(rec)  == \E i \in 1..Len(search_fields) :
                        IContains(TextOf(rec, search_fields[i]), term)
    IN  IF term # <<>> /\ search_fields # <<>>
        THEN found = SelectSeq(queryset, Hit)
        ELSE found = queryset

\* apply_search_filter keeps the search contract
ApplySearchFilterKeepsContract ==
    pc = "searched" => SearchContract(result.value)

\* C10: a search term that is non-empty after trimming selects exactly the
\* records in which a search field contains the trimmed term, letter case
\* ignored; a blank or absent term, or no search field, leaves the collection
\* unchanged -- in apply_search_filter and in the list view's apply_filters
C10_SearchSelectsMatches ==
    /\ pc = "searched" => SearchContract(result.value)
    /\ (pc = "master_filtered" /\ filter_fields = <<>>) =>
            result.ok /\ SearchContract(result.value)

\* a declared field is dropped when the model has no field of that name, or
\* when the lookup on it fails (a value of an integer field that is no integer)
Dropped(field) ==
    \/ field \notin ModelFields
    \/ field = LEVEL /\ \E v \in Supplied(field) : ~PyInt(v).ok

\* C12: apply_exact_filters never raises; an unknown or failing field
\* contributes no filtering and the filters of every other declared field are
\* applied, so the outcome is that of the list without the dropped fields
C12_ExactFiltersFailSoft ==
    pc = "filtered" =>
        LET NotDropped(field) == ~Dropped(field)
            others            == SelectSeq(filter_fields, NotDropped)
        IN  /\ result.ok
            /\ result = apply_exact_filters(queryset, query_params, others)
            /\ \A i \in 1..Len(result.value) :
                \A j \in 1..Len(others) :
                    Filters(others[j]) =>
                        StoredValue(result.value[i], others[j]) \in Remaining(others[j])

\* an unknown field and a failing level filter come before a status filter,
\* which still selects
C12_Witness ==
    /\ pc = "filtered"
    /\ filter_fields = <<NOFIELD, LEVEL, STATUS>>
    /\ QGetList(query_params, NOFIELD) # <<>>
    /\ \E v \in Supplied(LEVEL) : ~PyInt(v).ok
    /\ QGetList(query_params, STATUS) = <<ACTIVE>>
    /\ result.ok
    /\ result.value # <<>>
    /\ Len(result.value) < Len(queryset)
    /\ \A i \in 1..Len(result.value) : result.value[i].status = ACTIVE

---------------------------------------------------------------------------
(* Properties of the sorter (checked under SpecSort)                       *)

\* the key the request asks for: the last value of sort_by, the default when
\* the parameter is absent
RequestedKey == QGet(query_params, SORT_BY, default_sort)

HasMarker(key) == key # <<>> /\ Head(key) = "-"

\* the key without its descending marker
BaseName(key) == IF HasMarker(key) THEN Tail(key) ELSE key

\* the collection `sorted` holds the records of `qs` in the order of key
OrderedBy(sorted, qs, key) ==
    /\ sorted \in Arrangements(qs)
    /\ IsOrderedBy(sorted, BaseName(key), HasMarker(key))

\* the sorter's contract for an outcome r over the collection qs
SortContract(r, qs) ==
    /\ r.ok
    /\ IF InSeq(BaseName(RequestedKey), sort_fields)
       THEN OrderedBy(r.value, qs, RequestedKey)
       ELSE OrderedBy(r.value, qs, default_sort)

\* what apply_all_filters hands to its sorting step
FilteredForSort ==
    LET searched == IF search_fields # <<>>
                    THEN apply_search_filter(queryset, query_params, search_fields)
                    ELSE queryset
    IN  IF filter_fields # <<>>
        THEN apply_exact_filters(searched, query_params, filter_fields).value
        ELSE searched

\* apply_sorting keeps the contract for every key with at most one marker
ApplySortingKeepsContractForOneMarker ==
    (pc = "sorted" /\ ~HasMarker(BaseName(RequestedKey))) => SortContract(result, queryset)

\* C11: the requested key is applied exactly when its base name is in the
\* allow-list; in every other case (key absent, empty, not allow-listed, or
\* an empty allow-list) the result is ordered by the declared default -- in
\* apply_sorting and in apply_all_filters
C11_SortByAllowListOrDefault ==
    /\ pc = "sorted" => SortContract(result, queryset)
    /\ pc = "all_filtered" => SortContract(result, FilteredForSort)

\* C13: when applying a key that passed the allow-list check fails,
\* apply_sorting raises nothing and returns the collection in default order
C13_SortFailureFallsBack ==
    (/\ pc = "sorted"
     /\ InSeq(LStripDash(RequestedKey), sort_fields)
     /\ \E r \in order_by(queryset, RequestedKey) : ~r.ok)
        => /\ result.ok
           /\ OrderedBy(result.value, queryset, default_sort)

---------------------------------------------------------------------------
(* Properties of the audit log (checked under SpecAudit)                   *)

\* the record a call is to store: the supplied arguments, the defaults of
\* the omitted ones, the actor's role for an omitted role
StoredAsGiven(row, args) ==
    /\ row.action = args.action
    /\ row.module = args.module
    /\ row.performed_by = args.user
    /\ row.status = Given(args, "status", SUCCESS)
    /\ row.action_details = Given(args, "action_details", <<>>)
    /\ row.from_status = Given(args, "from_status", <<>>)
    /\ row.to_status = Given(args, "to_status", <<>>)
    /\ row.changed_fields = Given(args, "changed_fields", EmptyDict)
    /\ row.related_object_id = args.related_object_id
    /\ args.user_role # NOT_GIVEN => row.performed_by_role = args.user_role
    /\ (args.user_role = NOT_GIVEN /\ args.user # NoneInt) =>
            row.performed_by_role = Users[args.user].role

\* C14: every call of log_audit_event succeeds and persists exactly one new
\* record holding the supplied arguments, omitted ones defaulted, the actor
\* role taken from the actor when the role is omitted
C14_RecordingAlwaysPersists ==
    [][(pc = "idle" /\ pc' = "recorded") =>
            /\ result'.ok
            /\ audit_log'.rows = Append(audit_log.rows, result'.value)
            /\ StoredAsGiven(result'.value, call_args')]_vars

\* the audit read side: what the list and the export select from
ReadSide(table) == {objects(table)[i] : i \in 1..Len(objects(table))}

\* C15: the audit log is append-only: no operation removes or changes an
\* event the read side returns
C15_AppendOnly ==
    [][\A event \in ReadSide(audit_log) : event \in ReadSide(audit_log')]_vars

---------------------------------------------------------------------------
(* Properties of the response envelope (checked under SpecResponse)        *)

Responded == pc \in {"responded", "handled"}

\* the body of the response
Envelope == result.value.data

\* C16: every response has transport status 200; `response` is "success"
\* only with an integer message_code in 1000..1999 and "error" only with an
\* integer message_code >= 2000
C16_StatusAndCodeRanges ==
    Responded =>
        /\ result.value.status = 200
        /\ Envelope.response \in {"success", "error"}
        /\ Envelope.response = "success" =>
                /\ Envelope.message_code.int
                /\ Envelope.message_code.n \in 1000..1999
        /\ Envelope.response = "error" =>
                /\ Envelope.message_code.int
                /\ Envelope.message_code.n >= 2000

\* C17: the envelope has exactly the keys response, message_code, message,
\* plus data (resp. errors) exactly when that argument is not None; the
\* message is the override when one is given, else the text of the code in
\* the table, else the placeholder "Unknown message code: <code>"
C17_EnvelopeKeysAndMessage ==
    pc = "responded" =>
        LET success == call_args.fn = "success_response"
            extra   == IF success THEN "data" ELSE "errors"
        IN  /\ result.ok
            /\ DOMAIN Envelope =
                    {"response", "message_code", "message"}
                        \cup (IF call_args.object.given THEN {extra} ELSE {})
            /\ Envelope.response = (IF success THEN "success" ELSE "error")
            /\ Envelope.message_code = call_args.message_code
            /\ call_args.object.given => Envelope[extra] = call_args.object.value
            /\ Envelope.message =
                    (IF Truthy(call_args.message) THEN call_args.message
                     ELSE IF call_args.message_code.n \in MessageCodes
                          THEN MESSAGES(call_args.message_code.n)
                     ELSE <<"U", "n", "k", "n", "o", "w", "n", " ", "m", "e", "s", "s", "a", "g", "e", " ", "c", "o",
                              "d", "e", ":", " ">>
                            \o PyStr(call_args.message_code.n))

\* an unknown code, no override, an empty list as data
C17_Witness ==
    /\ pc = "responded"
    /\ call_args.fn = "success_response"
    /\ call_args.message_code = IntCode(UnlistedSuccessCode)
    /\ call_args.message = None
    /\ call_args.object = Present(<<"[", "]">>)
    /\ "data" \in DOMAIN Envelope
    /\ Len(Envelope.message) > Len(PyStr(UnlistedSuccessCode))

\* the envelope of a fixed code: its table text, no errors field
FixedEnvelope(code) ==
    [response |-> "error", message_code |-> IntCode(code), message |-> MESSAGES(code)]

AuthenticationErrors == {"InvalidToken", "TokenError", "AuthenticationFailed",
                         "NotAuthenticated"}

PermissionErrors == {"PermissionDenied", "DjangoPermissionDenied"}

UnexpectedErrors == {"ValueError", "IntegrityError", "KeyError"}

\* C18: the handler's output depends on the class of the error only: every
\* authentication error renders the envelope of 3001, every permission error
\* that of 3005, every unexpected error that of 5001, without `errors`
C18_OutputDependsOnClassOnly ==
    pc = "handled" =>
        /\ call_args.class \in AuthenticationErrors =>
                Envelope = FixedEnvelope(ERROR_AUTH_CREDENTIALS_NOT_PROVIDED)
        /\ call_args.class \in PermissionErrors =>
                Envelope = FixedEnvelope(ERROR_PERMISSION_DENIED)
        /\ call_args.class \in UnexpectedErrors =>
                Envelope = FixedEnvelope(ERROR_INTERNAL_SERVER)

\* an unexpected error whose text names a secret is rendered as 5001
C18_Witness ==
    /\ pc = "handled"
    /\ call_args.class = "IntegrityError"
    /\ IContains(call_args.detail, <<"s", "3", "c", "r", "e", "t">>)
    /\ Envelope.message_code = IntCode(ERROR_INTERNAL_SERVER)
    /\ ~IContains(Envelope.message, <<"s", "3", "c", "r", "e", "t">>)


---------------------------------------------------------------------------
(* Properties of the list endpoints and the export (checked under SpecRead) *)

Listed == pc \in {"master_listed", "audit_listed"}

\* the paginator's values for the queryset the view handed to it
PaginatorValues == apply_manual_pagination(queryset, query_params)

TotalsAtTopLevel ==
    /\ {"data", "total", "next", "previous"} \subseteq DOMAIN Envelope
    /\ Envelope.total = PaginatorValues.total
    /\ Envelope.next = PaginatorValues.next
    /\ Envelope.previous = PaginatorValues.previous

\* the master-data list view alone carries the three keys at the top level
MasterListTotalsAtTopLevel ==
    (pc = "master_listed" /\ Envelope.response = "success") => TotalsAtTopLevel

MasterListWitness ==
    /\ pc = "master_listed" /\ Envelope.response = "success"
    /\ Envelope.next # None /\ Envelope.previous # None

\* C19: the success envelope of every list endpoint (master data, audit log)
\* carries total, next and previous as top-level keys beside data, with the
\* values the paginator computed
C19_ListTotalsAtTopLevel ==
    (Listed /\ Envelope.response = "success") => TotalsAtTopLevel

\* Reading a CSV text of the excel dialect back.  A character stands outside
\* quotes when an even number of quote characters precedes it; a CRLF outside
\* quotes ends a row, a comma outside quotes ends a cell.
QuotePositions(s) == {j \in 1..Len(s) : s[j] = "\""}

Outside(s, i) == Cardinality({j \in QuotePositions(s) : j < i}) % 2 = 0

\* the k-th smallest member of a set of positions
Nth(S, k) == CHOOSE x \in S : Cardinality({y \in S : y < x}) = k - 1

\* the pieces of s between the separators at the positions `at`, each
\* separator `width` characters long
Pieces(s, at, width) ==
    [k \in 1..(Cardinality(at) + 1) |->
        SubSeq(s,
               IF k = 1 THEN 1 ELSE Nth(at, k - 1) + width,
               IF k = Cardinality(at) + 1 THEN Len(s) ELSE Nth(at, k) - 1)]

RECURSIVE Undouble(_)
Undouble(s) ==
    IF s = <<>> THEN <<>>
    ELSE IF Len(s) >= 2 /\ s[1] = "\"" /\ s[2] = "\""
    THEN <<"\"">> \o Undouble(SubSeq(s, 3, Len(s)))
    ELSE <<Head(s)>> \o Undouble(Tail(s))

\* the value of a cell: a quoted cell loses its quotes, doubled quotes halve
CellValue(cell) ==
    IF Len(cell) >= 2 /\ Head(cell) = "\"" /\ cell[Len(cell)] = "\""
    THEN Undouble(SubSeq(cell, 2, Len(cell) - 1))
    ELSE cell

CsvCells(line) ==
    LET commas == {i \in 1..Len(line) : line[i] = "," /\ Outside(line, i)}
        cells  == Pieces(line, commas, 1)
    IN  [k \in 1..Len(cells) |-> CellValue(cells[k])]

\* the rows of the text; text after the last CRLF would be one more row
CsvRead(s) ==
    LET ends  == {i \in 1..(Len(s) - 1) : s[i] = "\r" /\ s[i + 1] = "\n" /\ Outside(s, i)}
        lines == Pieces(s, ends, 2)
        whole == IF lines[Len(lines)] = <<>> THEN SubSeq(lines, 1, Len(lines) - 1)
                 ELSE lines
    IN  [k \in 1..Len(whole) |-> CsvCells(whole[k])]

ExportedRows == CsvRead(result.value.content)

\* the events the filters of the request select, newest first
Matching == apply_audit_log_filters(query_params, NewestFirst(objects(audit_log)))

Label(pairs, value) ==
    IF \E i \in 1..Len(pairs) : pairs[i][1] = value
    THEN pairs[CHOOSE i \in 1..Len(pairs) : pairs[i][1] = value][2]
    ELSE value

\* the eight values of an event in the order of the header
EventValues(event) ==
    <<  strftime(event.created_at),
        Label(ActionDescriptions, event.action),
        event.action_details,
        event.performed_by_role,
        IF event.performed_by = NoneInt THEN <<>> ELSE Users[event.performed_by].full_name,
        Label(MODULE_CHOICES, event.module),
        Label(STATUS_CHOICES, event.status),
        IF event.related_object_id = NoneInt THEN <<>>
        ELSE PyStr(event.related_object_id)  >>

EmptyExportWitness ==
    pc = "exported" /\ Matching = <<>> /\ objects(audit_log) # <<>>


---------------------------------------------------------------------------
(* Properties of the audit filters (checked under SpecRead)                *)

ReadDone == pc \in {"audit_listed", "exported"}

\* the stored events a reader can see, newest first
Stored == NewestFirst(objects(audit_log))

Param(key) == QGet(query_params, key, None)

\* the term occurs in the action key, in the action's description or in the
\* actor's display name
SearchHit(event, term) ==
    \/ IContains(event.action, term)
    \/ IContains(Label(ActionDescriptions, event.action), term)
    \/ (event.performed_by # NoneInt
            /\ IContains(Users[event.performed_by].full_name, term))

HasActor(user) == Truthy(user) /\ PyInt(user).ok

OfActor(event, user) ==
    event.performed_by # NoneInt /\ event.performed_by = PyInt(user).val

\* the events the search term and the actor id should select
SearchContractOf(term, user) ==
    SelectSeq(Stored, LAMBDA event :
        /\ (Truthy(term) => SearchHit(event, term))
        /\ (HasActor(user) => OfActor(event, user)))

\* C21: on the list and the export alike, search selects exactly the events
\* whose action key, action description or actor name contains the term
\* (case-insensitively, the term taken as sent or trimmed), and user selects
\* exactly the events of that actor id
C21_SearchAndUserSelectExactly ==
    (/\ ReadDone
     /\ ~Truthy(Param(START_DATE)) /\ ~Truthy(Param(END_DATE))
     /\ (Truthy(Param(USER)) => PyInt(Param(USER)).ok))
        => \E term \in {Param(SEARCH), Strip(Param(SEARCH))} :
                queryset = SearchContractOf(term, Param(USER))

\* the user filter alone does meet its part
UserSelectsExactly ==
    (ReadDone /\ HasActor(Param(USER)) /\ DOMAIN query_params = {1})
        => queryset = SearchContractOf(None, Param(USER))

\* the request without the named parameters
WithoutKeys(qp, keys) == SelectSeq(qp, LAMBDA entry : entry.key \notin keys)

\* what the endpoint that served the request selects for a query string
SelectedBy(qp) ==
    IF pc = "exported" THEN apply_audit_log_filters(qp, Stored)
    ELSE AuditLogList_apply_filters(qp, Stored)

HasDay(text) == Truthy(text) /\ strptime(text).ok

Malformed(text) == Truthy(text) /\ ~strptime(text).ok

DayOf(event) == DateKey(DateOf(event.created_at))

---------------------------------------------------------------------------
(* Properties of the permission check (checked under SpecPermission)       *)

Checked == pc = "permission_checked"

Granted == result.value

Authenticated == call_args.user.present /\ call_args.user.is_authenticated

\* the lists the view declares for this request
DeclaredAll ==
    IF call_args.view.master
    THEN (IF call_args.view.method = "GET" THEN call_args.view.view_permissions
          ELSE IF call_args.view.method = "POST" THEN call_args.view.manage_permissions
          ELSE <<>>)
    ELSE call_args.view.required_permissions

DeclaredAny == call_args.view.required_permissions_any

Holds(perm) == has_perm(call_args.user, perm)

\* C23: access is granted exactly when the user is authenticated, holds all
\* of required_permissions and, if required_permissions_any is non-empty,
\* at least one of it; an unauthenticated user is always denied, and a view
\* declaring neither list admits every authenticated user
C23_GrantedExactlyWhenAllAndAny ==
    Checked =>
        /\ Granted <=> (/\ Authenticated
                        /\ \A i \in 1..Len(DeclaredAll) : Holds(DeclaredAll[i])
                        /\ (DeclaredAny # <<>>
                                => \E i \in 1..Len(DeclaredAny) : Holds(DeclaredAny[i])))
        /\ (~Authenticated => ~Granted)
        /\ ((Authenticated /\ DeclaredAll = <<>> /\ DeclaredAny = <<>>) => Granted)

\* a user without superuser status passes a view that declares both lists
\* while lacking one permission of the second
C23_Witness ==
    /\ Checked /\ Granted
    /\ ~call_args.user.is_superuser
    /\ DeclaredAll # <<>> /\ Len(DeclaredAny) = 2
    /\ \E i \in 1..2 : ~Holds(DeclaredAny[i])

\* a user holding all of required_permissions is denied for lack of any of
\* required_permissions_any
DeniedByAnyWitness ==
    /\ Checked /\ ~Granted /\ Authenticated
    /\ DeclaredAll # <<>> /\ \A i \in 1..Len(DeclaredAll) : Holds(DeclaredAll[i])


---------------------------------------------------------------------------
(* Properties of typed filter fields (checked under SpecFilter)            *)

\* the declared fields but one
FieldsWithout(field) ==
    LET Other(f) == f # field
    IN  SelectSeq(filter_fields, Other)

\* what the request selects when `field` is not declared
SelectedWithout(field) ==
    apply_exact_filters(queryset, query_params, FieldsWithout(field))

Declared(field) == \E i \in 1..Len(filter_fields) : filter_fields[i] = field

\* the booleans the supplied is_active values stand for
AcceptedBooleans ==
    {b \in BOOLEAN :
        \E v \in Supplied(IS_ACTIVE) :
            \/ b /\ Lower(v) \in {<<"t", "r", "u", "e">>, <<"1">>}
            \/ ~b /\ Lower(v) \in {<<"f", "a", "l", "s", "e">>, <<"0">>}}

\* C24: a boolean field accepts true/false/1/0 in any letter case, true and
\* 1 as True, false and 0 as False, and drops every other value; with no
\* value left the field does not filter, and nothing is raised
C24_BooleanFieldAcceptsFourWords ==
    (pc = "filtered" /\ Declared(IS_ACTIVE)) =>
        LET Accepted(rec) == rec.is_active \in AcceptedBooleans
        IN  /\ result.ok
            /\ SelectedWithout(IS_ACTIVE).ok
            /\ result.value =
                    IF AcceptedBooleans = {} THEN SelectedWithout(IS_ACTIVE).value
                    ELSE SelectSeq(SelectedWithout(IS_ACTIVE).value, Accepted)

\* is_active=1&is_active=maybe narrows the stored records to the active ones
C24_Witness ==
    /\ pc = "filtered"
    /\ filter_fields = <<IS_ACTIVE>>
    /\ QGetList(query_params, IS_ACTIVE) = << <<"1">>, <<"m", "a", "y", "b", "e">> >>
    /\ Len(queryset) = NumRecords
    /\ result.ok
    /\ result.value # <<>>
    /\ Len(result.value) < Len(queryset)
    /\ \A i \in 1..Len(result.value) : result.value[i].is_active

\* is_active=yes leaves the collection as it is
BooleanSkippedWitness ==
    /\ pc = "filtered"
    /\ filter_fields = <<IS_ACTIVE>>
    /\ QGetList(query_params, IS_ACTIVE) = << <<"y", "e", "s">> >>
    /\ queryset # <<>>
    /\ result = Returned(queryset)

\* is_active=TRUE&is_active=0 selects active and inactive records alike
BooleanAnyCaseWitness ==
    /\ pc = "filtered"
    /\ filter_fields = <<IS_ACTIVE>>
    /\ Len(QGetList(query_params, IS_ACTIVE)) = 2
    /\ AcceptedBooleans = BOOLEAN
    /\ Len(queryset) = NumRecords
    /\ result = Returned(queryset)

\* the supplied status values that are choices of the field
SuppliedChoices == Supplied(STATUS) \cap {ACTIVE, INACTIVE, PENDING}

\* C25: a field with choices filters on exactly the supplied values that are
\* choices; other values are dropped silently, and with no valid value the
\* field does not filter
C25_ChoiceFieldKeepsValidValues ==
    (pc = "filtered" /\ Declared(STATUS)) =>
        LET Chosen(rec) == rec.status \in SuppliedChoices
        IN  /\ result.ok
            /\ SelectedWithout(STATUS).ok
            /\ result.value =
                    IF SuppliedChoices = {} THEN SelectedWithout(STATUS).value
                    ELSE SelectSeq(SelectedWithout(STATUS).value, Chosen)

\* status=active&status=bogus narrows the stored records to the active ones
C25_Witness ==
    /\ pc = "filtered"
    /\ filter_fields = <<STATUS>>
    /\ QGetList(query_params, STATUS) = <<ACTIVE, <<"b", "o", "g", "u", "s">> >>
    /\ Len(queryset) = NumRecords
    /\ result.ok
    /\ result.value # <<>>
    /\ Len(result.value) < Len(queryset)
    /\ \A i \in 1..Len(result.value) : result.value[i].status = ACTIVE

\* status=bogus leaves the collection as it is
ChoiceSkippedWitness ==
    /\ pc = "filtered"
    /\ filter_fields = <<STATUS>>
    /\ QGetList(query_params, STATUS) = << <<"b", "o", "g", "u", "s">> >>
    /\ queryset # <<>>
    /\ result = Returned(queryset)


---------------------------------------------------------------------------
(* Properties of removing a user (checked under SpecUser)                  *)

\* the events of the log, the reference to `user` cleared and nothing else
\* changed
ActorCleared(table, user) ==
    [i \in 1..Len(table.rows) |->
        IF table.rows[i].performed_by = user
        THEN [table.rows[i] EXCEPT !.performed_by = NoneInt]
        ELSE table.rows[i]]

\* C26: when the actor of recorded events is removed by the user's delete
\* operation, the actor reference of each of those events becomes null, the
\* events stay, and every other field, the role snapshot included, is
\* unchanged
C26_UserDeleteClearsActor ==
    [][(pc = "idle" /\ pc' = "user_deleted") =>
            audit_log'.rows = ActorCleared(audit_log, call_args'.user)]_vars

\* hard_delete() of the user does what the claim says of delete()
HardDeleteClearsActor ==
    [][(pc = "idle" /\ pc' = "user_hard_deleted") =>
            audit_log'.rows = ActorCleared(audit_log, call_args'.user)]_vars

\* after user.delete() an event still references the user, whose row is kept
\* with deleted_at set
ActorKeptAfterDelete ==
    /\ pc = "user_deleted"
    /\ \E i \in 1..Len(audit_log.rows) :
            /\ audit_log.rows[i].performed_by = call_args.user
            /\ audit_log.rows[i].performed_by_role = ADMIN
    /\ call_args.user \in Ids(deleted(user_table))

\* after user.hard_delete() the events of the user are kept without actor,
\* the role snapshot still in place
ActorClearedAfterHardDelete ==
    /\ pc = "user_hard_deleted"
    /\ call_args.user \notin Ids(with_deleted(user_table))
    /\ \E i \in 1..Len(audit_log.rows) :
            /\ audit_log.rows[i].performed_by = NoneInt
            /\ audit_log.rows[i].performed_by_role = ADMIN


---------------------------------------------------------------------------
(* Properties of a list request served while the table changes (checked    *)
(* under SpecConcurrent)                                                   *)

Fetched == pc = "fetched"

\* the table changed in size between the count and the fetch
Drifted == Len(queryset) # call_args.total

\* what the paginator returns for a table of the size that was counted
AsCounted == apply_manual_pagination(Newest(call_args.total), query_params)

\* the rows of the table, as it is at the fetch, that lie on the page
OnPage ==
    {i \in 1..Len(queryset) : call_args.bottom < i /\ i <= call_args.top}

\* C27: when other requests insert or delete records between the count and
\* the fetch, the request completes without error and returns at most limit
\* items, rows of the table as it is at the fetch; total and the links are
\* those of the count, so they alone may be stale
C27_DriftToleratedWithinLimit ==
    Fetched =>
        /\ result.ok
        /\ pagination_params.should_paginate =>
                /\ Len(result.value.data) <= pagination_params.limit
                /\ Len(result.value.data) = Cardinality(OnPage)
                /\ \A k \in 1..Len(result.value.data) :
                        result.value.data[k] = queryset[call_args.bottom + k]
        /\ ~pagination_params.should_paginate => result.value.data = queryset
        /\ result.value.total = AsCounted.total
        /\ result.value.next = AsCounted.next
        /\ result.value.previous = AsCounted.previous

\* without a write in between the two queries return what the paginator
\* returns for the table
NoDriftSameAsPaginator ==
    (Fetched /\ ~Drifted) =>
        result.value = apply_manual_pagination(queryset, query_params)

\* two records are inserted after the count of a page of two: the page holds
\* two items, total is two short and no next link is given
C27_Witness ==
    /\ Fetched
    /\ pagination_params = [should_paginate |-> TRUE, page |-> 1, limit |-> 2]
    /\ call_args.total = 2
    /\ Len(queryset) = 4
    /\ Len(result.value.data) = 2
    /\ result.value.total = 2
    /\ result.value.next = None

\* records are deleted after the count: the second page comes back empty
\* while total and the previous link still speak of it
DeletedAfterCountWitness ==
    /\ Fetched
    /\ pagination_params = [should_paginate |-> TRUE, page |-> 2, limit |-> 2]
    /\ Len(queryset) < 3
    /\ result.value.data = <<>>
    /\ result.value.total > Len(queryset)
    /\ result.value.previous # None


---------------------------------------------------------------------------
(* Properties of soft delete (checked under SpecSoftDelete)                *)

\* the rows a manager method returns, as a set
Returns(rows) == {rows[i] : i \in 1..Len(rows)}

\* a row with its deletion mark left out of the comparison
Unmarked(row) == [row EXCEPT !.deleted_at = NoneInt]

\* the operation under way changed nothing but deleted_at, and that only of
\* the rows it was applied to, where Marked tells the mark it leaves
OnlyMarks(Marked(_)) ==
    /\ Len(master_table.rows) = Len(call_args.before.rows)
    /\ \A i \in 1..Len(master_table.rows) :
        IF call_args.before.rows[i].id \in call_args.ids
        THEN /\ Marked(master_table.rows[i])
             /\ Unmarked(master_table.rows[i]) = Unmarked(call_args.before.rows[i])
        ELSE master_table.rows[i] = call_args.before.rows[i]

IsDeleted(row) == row.deleted_at # NoneInt

IsVisible(row) == row.deleted_at = NoneInt

\* C28: every stored record is returned by exactly one of the default manager
\* and deleted(), and by with_deleted(); delete() and the bulk delete only
\* set deleted_at, restore() and undelete only clear it; a delete followed
\* by a restore leaves the record visible and otherwise as it was
C28_SoftDeletePartitionsRecords ==
    /\ \A row \in Returns(master_table.rows) :
        /\ (row \in Returns(objects(master_table))) # (row \in Returns(deleted(master_table)))
        /\ row \in Returns(with_deleted(master_table))
    /\ Returns(objects(master_table)) \cup Returns(deleted(master_table))
            = Returns(master_table.rows)
    /\ pc \in {"deleted", "bulk_deleted"} => OnlyMarks(IsDeleted)
    /\ pc \in {"restored", "bulk_undeleted"} => OnlyMarks(IsVisible)
    /\ \A id \in Ids(objects(master_table)) :
        /\ id \in Ids(deleted(instance_delete(master_table, id)))
        /\ instance_restore(instance_delete(master_table, id), id) = master_table

\* a record that was deleted has been restored while another is still
\* deleted: the first is visible again, the second is not
C28_Witness ==
    /\ pc = "restored"
    /\ \E i \in 1..Len(master_table.rows) :
        /\ master_table.rows[i].id \in call_args.ids
        /\ IsDeleted(call_args.before.rows[i])
        /\ master_table.rows[i] \in Returns(objects(master_table))
        /\ master_table.rows[i] = MasterRecord(master_table.rows[i].id)
    /\ deleted(master_table) # <<>>

\* a bulk delete hides several records at once
BulkDeleteWitness ==
    /\ pc = "bulk_deleted"
    /\ Cardinality(call_args.ids) > 1
    /\ call_args.ids \subseteq Ids(deleted(master_table))
    /\ objects(master_table) # <<>>


---------------------------------------------------------------------------
(* Properties of the default pagination class (checked under SpecStandard) *)

StandardDone == pc = "standard_paginated"

\* the request carries page or limit
CarriesPageOrLimit == QHas(query_params, PAGE) \/ QHas(query_params, LIMIT)

\* what the manual paginator resolves and returns for the same request
Manual == get_pagination_params(query_params)

ManualResult == apply_manual_pagination(queryset, query_params)

\* the page and limit values a link carries, as numbers
LinkValues(url) ==
    <<PyInt(QGet(RequestFor(url), PAGE, None)), PyInt(QGet(RequestFor(url), LIMIT, None))>>

\* two links, where both are given, carry the same page and limit
SameLinkValues(a, b) == (a # None /\ b # None) => LinkValues(a) = LinkValues(b)

\* C29: for every request carrying page or limit, StandardPagination resolves
\* the same page size, within 1..100, and the same page number, at least 1,
\* as get_pagination_params, and its links carry the page and limit values of
\* the links apply_manual_pagination builds
C29_StandardAgreesWithManual ==
    (StandardDone /\ CarriesPageOrLimit) =>
        /\ pagination_params.limit = Manual.limit
        /\ pagination_params.limit \in 1..MaxLimit
        /\ pagination_params.page = Manual.page
        /\ pagination_params.page >= 1
        /\ result.ok =>
            /\ SameLinkValues(result.value.next, ManualResult.next)
            /\ SameLinkValues(result.value.previous, ManualResult.previous)

\* a request whose limit is absent or a number in 1..100 and whose page is
\* absent or the number of an existing page
WellFormed ==
    /\ QHas(query_params, LIMIT) =>
            /\ PyInt(QGet(query_params, LIMIT, None)).ok
            /\ PyInt(QGet(query_params, LIMIT, None)).val \in 1..MaxLimit
            /\ PyStr(PyInt(QGet(query_params, LIMIT, None)).val)
                    = QGet(query_params, LIMIT, None)
    /\ QHas(query_params, PAGE) =>
            /\ PyInt(QGet(query_params, PAGE, None)).ok
            /\ PyInt(QGet(query_params, PAGE, None)).val
                    \in 1..NumPages(Len(queryset), Manual.limit)

\* on well-formed requests the two paginators agree in everything
AgreeOnWellFormed ==
    (StandardDone /\ CarriesPageOrLimit /\ WellFormed) =>
        /\ result.ok
        /\ pagination_params = Manual
        /\ result.value.results = ManualResult.data
        /\ result.value.total = ManualResult.total
        /\ SameLinkValues(result.value.next, ManualResult.next)
        /\ SameLinkValues(result.value.previous, ManualResult.previous)
        /\ (result.value.next = None) = (ManualResult.next = None)
        /\ (result.value.previous = None) = (ManualResult.previous = None)

\* limit=250: both serve pages of 100, but the link of the default class
\* still says limit=250
StaleLimitWitness ==
    /\ StandardDone
    /\ QGet(query_params, LIMIT, None) = <<"2", "5", "0">>
    /\ pagination_params.limit = 100
    /\ result.ok /\ result.value.next # None /\ ManualResult.next # None
    /\ LinkValues(result.value.next)[2].val = 250
    /\ LinkValues(ManualResult.next)[2].val = 100

\* limit=0: the default class does not paginate, the manual paginator
\* serves pages of one
ZeroLimitWitness ==
    /\ StandardDone
    /\ pagination_params.limit = 0
    /\ Manual.limit = 1
    /\ result.ok /\ ~result.value.paginated

\* page=0: the default class answers NotFound, the manual paginator serves
\* page 1
ZeroPageWitness ==
    /\ StandardDone
    /\ pagination_params.page = 0
    /\ Manual.page = 1
    /\ result = Raised("NotFound")


---------------------------------------------------------------------------
(* Properties of create and update (checked under SpecWrite)               *)

\* the step in which a create or update ends in an error
WriteFails == pc = "write_request" /\ pc' = "written" /\ ~result'.ok

\* C30: a create or update that ends in an error (deactivation blocked, a
\* file failing validation, invalid JSON in the data field, serializer
\* validation failure) leaves the record store and the file storage
\* unchanged
C30_FailedWriteChangesNothing ==
    [][WriteFails => (master_table' = master_table /\ media' = media)]_vars

\* the record store alone is left unchanged by every failing request
FailedWriteKeepsRecords ==
    [][WriteFails => master_table' = master_table]_vars

\* errors raised before the uploads are handled leave the storage unchanged
EarlyErrorKeepsFiles ==
    [][(WriteFails /\ result'.code \in {ERROR_INPUT, ERROR_MASTER_DATA_NOT_FOUND,
                                        ERROR_CANNOT_DEACTIVATE_REFERENCED_ITEM})
            => media' = media]_vars

\* the files no stored record names
Orphans ==
    {f \in media : \A i \in 1..Len(master_table.rows) :
                        master_table.rows[i].logo # f /\ master_table.rows[i].document # f}

\* a create with a valid logo and a blank name fails in the serializer and
\* leaves the logo in the storage
FileLeftAfterValidationError ==
    /\ pc = "written"
    /\ call_args.method = "POST"
    /\ ~result.ok /\ result.code = ERROR_VALIDATION
    /\ Orphans # {}
    /\ master_table = MasterRows

\* a create whose document fails validation leaves the logo saved before it
FileLeftAfterInvalidFile ==
    /\ pc = "written"
    /\ call_args.method = "POST"
    /\ ~result.ok /\ result.code = ERROR_INVALID_DOCUMENT_FORMAT
    /\ Orphans # {}

\* an update that succeeds stores the paths of both files
UpdateStoresFiles ==
    /\ pc = "written"
    /\ call_args.method = "PUT"
    /\ result.ok
    /\ Cardinality(media) = 2 /\ Orphans = {}

---------------------------------------------------------------------------
(* Every handler together                                                  *)

Next ==
    \/ PageNext \/ FilterNext \/ SortNext \/ AuditNext \/ ResponseNext \/ ReadNext
    \/ PermissionNext \/ UserNext \/ ConcurrentNext \/ SoftDeleteNext
    \/ StandardNext \/ WriteNext

Spec == Init /\ [][Next]_vars

====
